---- MODULE Spec2Model ----
(***************************************************************************)
(* A model of the sportsstats CSV engine: csv_parser.py (CSVParser: the    *)
(* tokenizer, value and schema inference, full and chunked parse, the      *)
(* query methods) and the parts of frontend.py that drive it.              *)
(*                                                                         *)
(* Text is a sequence of one-character strings.  A typed value is a record *)
(* [t, n, d, s]: t is the Python runtime type ("null", "int", "float",     *)
(* "bool", "str"), n/d the numeric value as a fraction in lowest terms     *)
(* (d = 0 for nan, n = 1 or -1 with d = 0 for the infinities), s the text  *)
(* of a str.  A row is a function from column names to typed values, a     *)
(* Python dict whose insertion order is not kept.  Floats are exact        *)
(* fractions: binary rounding is not modelled.                             *)
(***************************************************************************)
EXTENDS Integers, Sequences, FiniteSets, TLC

VARIABLES
    file,        \* the lines of the CSV file at file_path, newline stripped
    data,        \* CSVParser.data
    schema,      \* CSVParser.schema
    parses,      \* number of full-mode parse() calls made on the parser
    gen,         \* the generator returned by parse(chunk_size=K)
    batches,     \* the batches the generator has yielded, in yield order
    other_data,  \* the other_data argument of join
    call,        \* the last query call: its name and arguments
    result,      \* what the last query call returned or raised
    parsers,           \* frontend.parsers: dataset name -> parser
    chunk_stats,       \* frontend.chunk_stats: dataset name -> stats dict
    heap,              \* the stats dicts, each known by its position
    loading_progress,  \* frontend.loading_progress: dataset name -> progress
    active_dataset,    \* frontend.active_dataset, "" for None
    sessions,          \* the session of each client
    loaders,           \* the threads of load_dataset_with_progress
    requests           \* the threads of index, one per client

\* The state of the web server.
server ==
    <<parsers, chunk_stats, heap, loading_progress, active_dataset, sessions,
      loaders, requests>>

vars ==
    <<file, data, schema, parses, gen, batches, other_data, call, result, server>>

-----------------------------------------------------------------------------
(* Bounds of the model.                                                    *)

MaxLines == 3
MaxChunk == 3
MaxParses == 2
MaxSchemaRows == 3
MaxAggRows == 3
MaxLeft == 3
MaxOther == 2
MaxSortRows == 4

-----------------------------------------------------------------------------
(* Generic helpers.                                                        *)

Range(f) == {f[x] : x \in DOMAIN f}

SeqsUpTo(S, n) == UNION {[1..k -> S] : k \in 0..n}

RECURSIVE Str(_)
Str(cs) == IF cs = <<>> THEN "" ELSE Head(cs) \o Str(Tail(cs))

RECURSIVE Flatten(_)
Flatten(ss) == IF ss = <<>> THEN <<>> ELSE Head(ss) \o Flatten(Tail(ss))

RECURSIVE Gcd(_, _)
Gcd(a, b) == IF b = 0 THEN a ELSE Gcd(b, a % b)

Abs(a) == IF a < 0 THEN -a ELSE a

RECURSIVE Pow10(_)
Pow10(k) == IF k <= 0 THEN 1 ELSE 10 * Pow10(k - 1)

-----------------------------------------------------------------------------
(* Typed values.                                                           *)

Null == [t |-> "null", n |-> 0, d |-> 1, s |-> ""]
IntV(k) == [t |-> "int", n |-> k, d |-> 1, s |-> ""]
BoolV(b) == [t |-> "bool", n |-> IF b THEN 1 ELSE 0, d |-> 1, s |-> ""]
StrV(str) == [t |-> "str", n |-> 0, d |-> 1, s |-> str]
FloatV(num, den) ==
    LET g == Gcd(Abs(num), den)
    IN  IF num = 0 THEN [t |-> "float", n |-> 0, d |-> 1, s |-> ""]
        ELSE [t |-> "float", n |-> num \div g, d |-> den \div g, s |-> ""]
FloatInf(sign) == [t |-> "float", n |-> sign, d |-> 0, s |-> ""]
FloatNan == [t |-> "float", n |-> 0, d |-> 0, s |-> ""]

IsNumber(v) == v.t \in {"int", "float", "bool"}

\* Python's == (and the hash it agrees with) on the values a cell can hold:
\* numbers compare by numeric value across int, float and bool (1 == 1.0 ==
\* True), nan equals nothing, None equals only None.
PyEq(a, b) ==
    IF IsNumber(a) /\ IsNumber(b)
    THEN /\ ~(a.d = 0 /\ a.n = 0)
         /\ ~(b.d = 0 /\ b.n = 0)
         /\ a.n = b.n
         /\ a.d = b.d
    ELSE a.t = b.t /\ a.s = b.s /\ ~IsNumber(a)


-----------------------------------------------------------------------------
(* The tokenizer: CSVParser._parse_csv_line.                               *)

Delimiter == ","
Quote == "\""

\* A bug Tokenize could have: every quote toggles in_quotes, a doubled quote
\* is no escape.
RECURSIVE TokenizeNoEscape(_, _, _, _, _)
TokenizeNoEscape(line, i, fields, current_field, in_quotes) ==
    IF i > Len(line) THEN Append(fields, current_field)
    ELSE IF line[i] = Quote
    THEN TokenizeNoEscape(line, i + 1, fields, current_field, ~in_quotes)
    ELSE IF line[i] = Delimiter /\ ~in_quotes
    THEN TokenizeNoEscape(line, i + 1, Append(fields, current_field), <<>>, in_quotes)
    ELSE TokenizeNoEscape(line, i + 1, fields, Append(current_field, line[i]), in_quotes)

\* A bug Tokenize could have: the last field is emitted only when it holds
\* a character.
RECURSIVE TokenizeNoEmptyLast(_, _, _, _, _)
TokenizeNoEmptyLast(line, i, fields, current_field, in_quotes) ==
    IF i > Len(line)
    THEN IF current_field = <<>> THEN fields ELSE Append(fields, current_field)
    ELSE IF line[i] = Quote
    THEN IF in_quotes /\ i + 1 <= Len(line) /\ line[i + 1] = Quote
         THEN TokenizeNoEmptyLast(line, i + 2, fields, Append(current_field, Quote), in_quotes)
         ELSE TokenizeNoEmptyLast(line, i + 1, fields, current_field, ~in_quotes)
    ELSE IF line[i] = Delimiter /\ ~in_quotes
    THEN TokenizeNoEmptyLast(line, i + 1, Append(fields, current_field), <<>>, in_quotes)
    ELSE TokenizeNoEmptyLast(line, i + 1, fields, Append(current_field, line[i]), in_quotes)

\* One pass of the while loop from position i, with the fields emitted so
\* far, the current field and the in_quotes flag; the final append at i past
\* the end.
RECURSIVE Tokenize(_, _, _, _, _)
Tokenize(line, i, fields, current_field, in_quotes) ==
    IF i > Len(line) THEN Append(fields, current_field)
    ELSE IF line[i] = Quote
    THEN IF in_quotes /\ i + 1 <= Len(line) /\ line[i + 1] = Quote
         THEN Tokenize(line, i + 2, fields, Append(current_field, Quote), in_quotes)
         ELSE Tokenize(line, i + 1, fields, current_field, ~in_quotes)
    ELSE IF line[i] = Delimiter /\ ~in_quotes
    THEN Tokenize(line, i + 1, Append(fields, current_field), <<>>, in_quotes)
    ELSE Tokenize(line, i + 1, fields, Append(current_field, line[i]), in_quotes)

ParseCsvLine(line) == Tokenize(line, 1, <<>>, <<>>, FALSE)

-----------------------------------------------------------------------------
(* Value inference: CSVParser._infer_value_type.  The text is ASCII.       *)

Whitespace == {" ", "\t"}
Digits == <<"0", "1", "2", "3", "4", "5", "6", "7", "8", "9">>
UpperCase == <<"A", "B", "C", "D", "E", "F", "G", "H", "I", "J", "K", "L", "M",
               "N", "O", "P", "Q", "R", "S", "T", "U", "V", "W", "X", "Y", "Z">>
LowerCase == <<"a", "b", "c", "d", "e", "f", "g", "h", "i", "j", "k", "l", "m",
               "n", "o", "p", "q", "r", "s", "t", "u", "v", "w", "x", "y", "z">>

IsDigit(c) == c \in Range(Digits)
DigitVal(c) == (CHOOSE i \in DOMAIN Digits : Digits[i] = c) - 1

LowerChar(c) ==
    IF c \in Range(UpperCase)
    THEN LowerCase[CHOOSE i \in DOMAIN UpperCase : UpperCase[i] = c]
    ELSE c
Lower(cs) == [i \in DOMAIN cs |-> LowerChar(cs[i])]

\* str.strip(): leading and trailing whitespace removed.
RECURSIVE LStrip(_)
LStrip(cs) ==
    IF cs # <<>> /\ Head(cs) \in Whitespace THEN LStrip(Tail(cs)) ELSE cs
RECURSIVE RStrip(_)
RStrip(cs) ==
    IF cs # <<>> /\ cs[Len(cs)] \in Whitespace
    THEN RStrip(SubSeq(cs, 1, Len(cs) - 1)) ELSE cs
Strip(cs) == RStrip(LStrip(cs))

\* First position of a character of set S in cs, 0 when there is none.
FirstIn(cs, S) ==
    IF \E i \in DOMAIN cs : cs[i] \in S
    THEN CHOOSE i \in DOMAIN cs : cs[i] \in S /\ \A j \in 1..(i - 1) : cs[j] \notin S
    ELSE 0

\* A digit part of an int or float literal: digits, single underscores
\* allowed between two digits.
IsDigitPart(cs) ==
    /\ cs # <<>>
    /\ \A i \in DOMAIN cs : IsDigit(cs[i]) \/ cs[i] = "_"
    /\ IsDigit(cs[1]) /\ IsDigit(cs[Len(cs)])
    /\ \A i \in 1..(Len(cs) - 1) : ~(cs[i] = "_" /\ cs[i + 1] = "_")

RECURSIVE DigitPartVal(_, _)
DigitPartVal(cs, acc) ==
    IF cs = <<>> THEN acc
    ELSE IF Head(cs) = "_" THEN DigitPartVal(Tail(cs), acc)
    ELSE DigitPartVal(Tail(cs), 10 * acc + DigitVal(Head(cs)))

NumDigits(cs) == Cardinality({i \in DOMAIN cs : IsDigit(cs[i])})

HasSign(cs) == cs # <<>> /\ Head(cs) \in {"+", "-"}
Unsigned(cs) == IF HasSign(cs) THEN Tail(cs) ELSE cs
SignOf(cs) == IF cs # <<>> /\ Head(cs) = "-" THEN -1 ELSE 1

\* int(value) succeeds: an optional sign and a digit part.
IsIntLiteral(cs) == IsDigitPart(Unsigned(cs))
IntLiteralVal(cs) == SignOf(cs) * DigitPartVal(Unsigned(cs), 0)

\* float(value) succeeds: an optional sign, then inf, infinity or nan in any
\* case, or a decimal with an optional exponent.
FloatWords == {<<"i", "n", "f">>, <<"i", "n", "f", "i", "n", "i", "t", "y">>,
               <<"n", "a", "n">>}
Mantissa(cs) ==
    LET e == FirstIn(cs, {"e", "E"})
    IN  IF e = 0 THEN cs ELSE SubSeq(cs, 1, e - 1)
Exponent(cs) ==
    LET e == FirstIn(cs, {"e", "E"})
    IN  IF e = 0 THEN <<"0">> ELSE SubSeq(cs, e + 1, Len(cs))
IntPart(m) ==
    LET p == FirstIn(m, {"."})
    IN  IF p = 0 THEN m ELSE SubSeq(m, 1, p - 1)
FracPart(m) ==
    LET p == FirstIn(m, {"."})
    IN  IF p = 0 THEN <<>> ELSE SubSeq(m, p + 1, Len(m))
IsMantissa(m) ==
    IF FirstIn(m, {"."}) = 0 THEN IsDigitPart(m)
    ELSE /\ IntPart(m) = <<>> \/ IsDigitPart(IntPart(m))
         /\ FracPart(m) = <<>> \/ IsDigitPart(FracPart(m))
         /\ ~(IntPart(m) = <<>> /\ FracPart(m) = <<>>)
IsFloatLiteral(cs) ==
    LET u == Unsigned(cs)
    IN  \/ Lower(u) \in FloatWords
        \/ /\ IsMantissa(Mantissa(u))
           /\ IsIntLiteral(Exponent(u))
FloatLiteralVal(cs) ==
    LET u == Unsigned(cs)
        m == Mantissa(u)
        k == IntLiteralVal(Exponent(u)) - NumDigits(FracPart(m))
        num == SignOf(cs) * DigitPartVal(IntPart(m) \o FracPart(m), 0)
    IN  IF Lower(u) = <<"n", "a", "n">> THEN FloatNan
        ELSE IF Lower(u) \in FloatWords THEN FloatInf(SignOf(cs))
        ELSE IF k >= 0 THEN FloatV(num * Pow10(k), 1)
        ELSE FloatV(num, Pow10(-k))

InferValueType(value) ==
    LET v == Strip(value)
    IN  IF v = <<>> THEN Null
        ELSE IF IsIntLiteral(v) THEN IntV(IntLiteralVal(v))
        ELSE IF IsFloatLiteral(v) THEN FloatLiteralVal(v)
        ELSE IF Lower(v) \in {<<"t", "r", "u", "e">>, <<"f", "a", "l", "s", "e">>}
        THEN BoolV(Lower(v) = <<"t", "r", "u", "e">>)
        ELSE StrV(Str(v))

\* The value parse() stores for one field.
FieldValue(value, type_inference) ==
    IF type_inference THEN InferValueType(value) ELSE StrV(Str(Strip(value)))

-----------------------------------------------------------------------------
(* Schema inference: CSVParser._infer_schema_all_rows.                     *)

\* The isinstance chain: bool is a subclass of int, and None is none of the
\* three, so it falls to the else branch.
RuntimeTag(val) ==
    IF val.t \in {"int", "bool"} THEN "int"
    ELSE IF val.t = "float" THEN "float"
    ELSE "string"

\* A bug Promote could have: the first value's tag is kept.
PromoteFirstWins(cur, t) == IF cur = "none" THEN t ELSE cur

\* col_types[col] after one more value of tag t; "none" stands for None.
Promote(cur, t) ==
    IF cur = "none" THEN t
    ELSE IF cur # t THEN "string"
    ELSE cur

RECURSIVE InferLoop(_, _, _)
InferLoop(rows, i, col_types) ==
    IF i > Len(rows) THEN col_types
    ELSE InferLoop(rows, i + 1,
             [col \in DOMAIN col_types |->
                 Promote(col_types[col], RuntimeTag(rows[i][col]))])

\* The schema the method assigns for a non-empty row list whose rows all
\* carry the keys of the first row (what ingestion and join produce).
InferSchemaAllRows(rows) ==
    InferLoop(rows, 1, [col \in DOMAIN rows[1] |-> "none"])

\* self.schema after the call: left alone when self.data is empty.
SchemaAfterInfer(rows, old) ==
    IF rows = <<>> THEN old ELSE InferSchemaAllRows(rows)

-----------------------------------------------------------------------------
(* Full and chunked parse: CSVParser._read_csv_file and CSVParser.parse.   *)

\* A bug FitToHeader could have: a short row is not padded.
FitToHeaderNoPad(header, row) ==
    IF Len(row) > Len(header) THEN SubSeq(row, 1, Len(header)) ELSE row

\* A row of fields padded with empty fields, or cut, to the header's width.
FitToHeader(header, row) ==
    IF Len(row) < Len(header)
    THEN row \o [k \in 1..(Len(header) - Len(row)) |-> <<>>]
    ELSE IF Len(row) > Len(header) THEN SubSeq(row, 1, Len(header))
    ELSE row

\* dict(zip(header, row)) with each field converted: a column name that
\* occurs twice in the header keeps the value of its last occurrence.
ZipRow(header, row, type_inference) ==
    LET n == IF Len(header) < Len(row) THEN Len(header) ELSE Len(row)
        last(col) == CHOOSE j \in 1..n :
                        /\ Str(header[j]) = col
                        /\ \A k \in (j + 1)..n : Str(header[k]) # col
    IN  [col \in {Str(header[j]) : j \in 1..n} |->
            FieldValue(row[last(col)], type_inference)]

\* _read_csv_file: the header fields and the fields of every non-empty line
\* after the first; two empty lists for a file without lines.
ReadHeader(lines) == IF lines = <<>> THEN <<>> ELSE ParseCsvLine(lines[1])
RECURSIVE ReadRows(_, _)
ReadRows(lines, i) ==
    IF i > Len(lines) THEN <<>>
    ELSE IF lines[i] # <<>> THEN <<ParseCsvLine(lines[i])>> \o ReadRows(lines, i + 1)
    ELSE ReadRows(lines, i + 1)

\* The body of the full-mode loop for one row of fields.
FullParseRow(header, row, type_inference) ==
    ZipRow(header, FitToHeader(header, row), type_inference)

\* The rows one full-mode parse() appends to self.data.
FullParseRows(lines, type_inference) ==
    LET header == ReadHeader(lines)
        rows == ReadRows(lines, 2)
    IN  [i \in DOMAIN rows |-> FullParseRow(header, rows[i], type_inference)]

\* The body of the generator's loop for one non-empty line.
ChunkParseRow(header, line, type_inference) ==
    ZipRow(header, FitToHeader(header, ParseCsvLine(line)), type_inference)

\* The generator object: pc is where it is suspended ("none": no generator,
\* "start": created and not yet run, "loop": at the yield inside the for
\* loop, "tail": at the yield after the loop, "done": exhausted), pos the
\* index of the next line the file iterator returns.
NoGen ==
    [pc |-> "none", chunk_size |-> 1, type_inference |-> TRUE, header |-> <<>>,
     pos |-> 1, chunk |-> <<>>, row_count |-> 0]

\* The for loop of the generator run from g up to the next yield or the end
\* of the function: the generator then, and the batch yielded if any.
RECURSIVE GenLoop(_, _)
GenLoop(lines, g) ==
    IF g.pos > Len(lines)
    THEN IF g.chunk # <<>>
         THEN [gen |-> [g EXCEPT !.pc = "tail"], yielded |-> <<g.chunk>>]
         ELSE [gen |-> [g EXCEPT !.pc = "done"], yielded |-> <<>>]
    ELSE IF lines[g.pos] = <<>>
    THEN GenLoop(lines, [g EXCEPT !.pos = g.pos + 1])
    ELSE LET parsed_row == ChunkParseRow(g.header, lines[g.pos], g.type_inference)
             g2 == [g EXCEPT !.pos = g.pos + 1,
                             !.chunk = Append(g.chunk, parsed_row),
                             !.row_count = g.row_count + 1]
         IN  IF g2.row_count % g2.chunk_size = 0
             THEN [gen |-> [g2 EXCEPT !.pc = "loop"], yielded |-> <<g2.chunk>>]
             ELSE GenLoop(lines, g2)

\* A bug GenResume could have: the batch is not emptied after its yield.
GenResumeNoReset(lines, g) ==
    IF g.pc = "start"
    THEN GenLoop(lines,
             [g EXCEPT !.header = IF lines = <<>> THEN ParseCsvLine(<<>>)
                                  ELSE ParseCsvLine(lines[1]),
                       !.pos = 2, !.chunk = <<>>, !.row_count = 0])
    ELSE IF g.pc = "loop" THEN GenLoop(lines, g)
    ELSE [gen |-> [g EXCEPT !.pc = "done"], yielded |-> <<>>]

\* next() on the generator: f.readline() gives the empty string for a file
\* without lines, which tokenizes to one empty field.
GenResume(lines, g) ==
    IF g.pc = "start"
    THEN GenLoop(lines,
             [g EXCEPT !.header = IF lines = <<>> THEN ParseCsvLine(<<>>)
                                  ELSE ParseCsvLine(lines[1]),
                       !.pos = 2, !.chunk = <<>>, !.row_count = 0])
    ELSE IF g.pc = "loop" THEN GenLoop(lines, [g EXCEPT !.chunk = <<>>])
    ELSE [gen |-> [g EXCEPT !.pc = "done"], yielded |-> <<>>]

-----------------------------------------------------------------------------
(* What a query call returns or raises.                                    *)

NoResult ==
    [status |-> "none", exc |-> "", msg |-> "", rows |-> <<>>, pairs |-> <<>>,
     groups |-> <<>>, scalar |-> Null, fields |-> <<>>, values |-> <<>>,
     info |-> ""]
Raise(e) == [NoResult EXCEPT !.status = "raise", !.exc = e]
\* raise e(m): the exception with the fixed part of its message.
RaiseMsg(e, m) == [NoResult EXCEPT !.status = "raise", !.exc = e, !.msg = m]
ReturnRows(rs) == [NoResult EXCEPT !.status = "ok", !.rows = rs]
ReturnScalar(v) == [NoResult EXCEPT !.status = "ok", !.scalar = v]
ReturnGroups(gs) == [NoResult EXCEPT !.status = "ok", !.groups = gs]
ReturnFields(fs) == [NoResult EXCEPT !.status = "ok", !.fields = fs]
ReturnValues(vs) == [NoResult EXCEPT !.status = "ok", !.values = vs]

\* The query state a session starts with (get_query_state, frontend.py).
DefaultState ==
    [filters |-> <<>>, selected_columns |-> <<>>, sort_column |-> "",
     sort_order |-> "desc", show_all_columns |-> TRUE, join_dataset |-> "",
     join_left_col |-> "", join_right_col |-> "", aggregation_column |-> "",
     aggregation_function |-> "", aggregation_group_by |-> ""]

NoCall ==
    [op |-> "none", group_by |-> "", target_col |-> "", func |-> "",
     left_on |-> "", right_on |-> "", column |-> "", reverse |-> FALSE,
     type_inference |-> TRUE, text |-> <<>>, columns |-> <<>>,
     condition |-> "", filters |-> <<>>, state |-> DefaultState]

-----------------------------------------------------------------------------
(* Aggregation: CSVParser.aggregate.  A dict is a sequence of entries in   *)
(* insertion order, looked up with Python's ==.  The target column holds   *)
(* finite numbers, strings and nulls; max and min are modelled for         *)
(* numbers.                                                                *)

\* Position of the entry with a key equal to key, 0 when there is none.
DictFind(dict, key) ==
    IF \E k \in DOMAIN dict : PyEq(dict[k].key, key)
    THEN CHOOSE k \in DOMAIN dict : PyEq(dict[k].key, key)
    ELSE 0

NumLess(a, b) == a.n * b.d < b.n * a.d
NumAdd(a, b) ==
    IF a.t = "float" \/ b.t = "float"
    THEN FloatV(a.n * b.d + b.n * a.d, a.d * b.d)
    ELSE IntV(a.n + b.n)

\* sum(vals), starting from the int 0.
RECURSIVE PySum(_, _)
PySum(vals, acc) ==
    IF vals = <<>> THEN acc ELSE PySum(Tail(vals), NumAdd(acc, Head(vals)))

\* max(vals) and min(vals) of a non-empty list: the first of the greatest,
\* the first of the least.
RECURSIVE PyMax(_, _)
PyMax(vals, best) ==
    IF vals = <<>> THEN best
    ELSE PyMax(Tail(vals), IF NumLess(best, Head(vals)) THEN Head(vals) ELSE best)
RECURSIVE PyMin(_, _)
PyMin(vals, best) ==
    IF vals = <<>> THEN best
    ELSE PyMin(Tail(vals), IF NumLess(Head(vals), best) THEN Head(vals) ELSE best)

\* sum(vals) / len(vals): true division, a float.
PyAvg(vals) ==
    LET total == PySum(vals, IntV(0))
    IN  FloatV(total.n, total.d * Len(vals))

AllNumbers(vals) == \A k \in DOMAIN vals : IsNumber(vals[k])

\* The outcome of an expression: its value, or the exception it raises.
Value(v) == [exc |-> "", msg |-> "", val |-> v]
Failure(e, m) == [exc |-> e, msg |-> m, val |-> Null]

\* A bug Reduce could have: a func it does not know is taken as count.
ReduceUnknownAsCount(func, vals) ==
    IF func = "sum" /\ AllNumbers(vals) THEN Value(PySum(vals, IntV(0)))
    ELSE IF func = "max" /\ vals # <<>> /\ AllNumbers(vals)
    THEN Value(PyMax(Tail(vals), Head(vals)))
    ELSE IF func = "min" /\ vals # <<>> /\ AllNumbers(vals)
    THEN Value(PyMin(Tail(vals), Head(vals)))
    ELSE IF func = "avg" /\ vals # <<>> /\ AllNumbers(vals)
    THEN Value(PyAvg(vals))
    ELSE Value(IntV(Len(vals)))

\* One branch of the if chain over func, on the non-null values in scope:
\* the value, or the exception the builtin or the else branch raises.
Reduce(func, vals) ==
    IF func = "sum"
    THEN IF AllNumbers(vals) THEN Value(PySum(vals, IntV(0)))
         ELSE Failure("TypeError", "unsupported operand type")
    ELSE IF func = "max"
    THEN IF vals = <<>> THEN Failure("ValueError", "empty sequence")
         ELSE IF ~AllNumbers(vals) THEN Failure("TypeError", "not supported")
         ELSE Value(PyMax(Tail(vals), Head(vals)))
    ELSE IF func = "min"
    THEN IF vals = <<>> THEN Failure("ValueError", "empty sequence")
         ELSE IF ~AllNumbers(vals) THEN Failure("TypeError", "not supported")
         ELSE Value(PyMin(Tail(vals), Head(vals)))
    ELSE IF func = "avg"
    THEN IF ~AllNumbers(vals) THEN Failure("TypeError", "unsupported operand type")
         ELSE IF vals = <<>> THEN Failure("ZeroDivisionError", "division by zero")
         ELSE Value(PyAvg(vals))
    ELSE IF func = "count"
    THEN Value(IntV(Len(vals)))
    ELSE Failure("ValueError", "Unsupported function")

\* The grouping loop: one entry per distinct group key, holding the
\* non-null target values of its rows in row order.
RECURSIVE GroupLoop(_, _, _, _, _)
GroupLoop(rows, i, group_by, target_col, dict) ==
    IF i > Len(rows) THEN dict
    ELSE LET g == rows[i][group_by]
             v == rows[i][target_col]
             d1 == IF DictFind(dict, g) = 0
                   THEN Append(dict, [key |-> g, vals |-> <<>>])
                   ELSE dict
             k == DictFind(d1, g)
             d2 == IF v.t # "null"
                   THEN [d1 EXCEPT ![k].vals = Append(d1[k].vals, v)]
                   ELSE d1
         IN  GroupLoop(rows, i + 1, group_by, target_col, d2)

\* The reduce loop: the entries in insertion order, stopping at the first
\* exception.
RECURSIVE ReduceLoop(_, _, _, _)
ReduceLoop(dict, k, func, out) ==
    IF k > Len(dict) THEN ReturnGroups(out)
    ELSE LET r == Reduce(func, dict[k].vals)
         IN  IF r.exc # "" THEN RaiseMsg(r.exc, r.msg)
             ELSE ReduceLoop(dict, k + 1, func,
                             Append(out, [key |-> dict[k].key, val |-> r.val]))

\* The non-null values of target_col, in row order.
RECURSIVE NonNullValues(_, _)
NonNullValues(rows, target_col) ==
    IF rows = <<>> THEN <<>>
    ELSE (IF Head(rows)[target_col].t # "null"
          THEN <<Head(rows)[target_col]>> ELSE <<>>)
         \o NonNullValues(Tail(rows), target_col)

\* aggregate(group_by, target_col, func); group_by "" stands for None (both
\* are falsy at every test the method makes).
Aggregate(rows, sch, group_by, target_col, func) ==
    IF target_col \notin DOMAIN sch THEN RaiseMsg("ValueError", "Column not found")
    ELSE IF group_by # "" /\ group_by \notin DOMAIN sch
    THEN RaiseMsg("ValueError", "Group by column not found")
    ELSE IF group_by # ""
    THEN ReduceLoop(GroupLoop(rows, 1, group_by, target_col, <<>>), 1, func, <<>>)
    ELSE LET r == Reduce(func, NonNullValues(rows, target_col))
         IN  IF r.exc # "" THEN RaiseMsg(r.exc, r.msg) ELSE ReturnScalar(r.val)

-----------------------------------------------------------------------------
(* Join: CSVParser.join.  The index holds positions in other_data instead  *)
(* of the rows themselves, so that every output row is known by the pair   *)
(* (left position, right position) it was merged from.                     *)

\* A bug IndexAdd could have: the row is put in front of its key's list.
IndexAddFront(index, key, j) ==
    IF DictFind(index, key) = 0
    THEN Append(index, [key |-> key, vals |-> <<j>>])
    ELSE [index EXCEPT ![DictFind(index, key)].vals = <<j>> \o @]

\* index.setdefault(key, []).append(row) for the row at position j.
IndexAdd(index, key, j) ==
    IF DictFind(index, key) = 0
    THEN Append(index, [key |-> key, vals |-> <<j>>])
    ELSE [index EXCEPT ![DictFind(index, key)].vals = Append(@, j)]

\* A bug IndexRow could have: row.get(right_on), so that a row without
\* right_on is indexed under None.
IndexRowGet(index, other, j, right_on) ==
    IndexAdd(index,
             IF right_on \in DOMAIN other[j] THEN other[j][right_on] ELSE Null, j)

\* One pass of the index loop: a row without right_on is skipped.
IndexRow(index, other, j, right_on) ==
    IF right_on \notin DOMAIN other[j] THEN index
    ELSE IndexAdd(index, other[j][right_on], j)

RECURSIVE BuildIndex(_, _, _, _)
BuildIndex(other, j, right_on, index) ==
    IF j > Len(other) THEN index
    ELSE BuildIndex(other, j + 1, right_on, IndexRow(index, other, j, right_on))

\* A bug Merge could have: the left value wins.
MergeLeftWins(row, match) ==
    [col \in (DOMAIN row) \cup (DOMAIN match) |->
        IF col \in DOMAIN row THEN row[col] ELSE match[col]]

\* row.copy() updated with match: the right value wins.
Merge(row, match) ==
    [col \in (DOMAIN row) \cup (DOMAIN match) |->
        IF col \in DOMAIN match THEN match[col] ELSE row[col]]

\* A bug ProbeRow could have: a left row whose key is None is skipped, as in
\* a SQL join.
ProbeRowSkipNull(rows, i, left_on, index) ==
    IF left_on \notin DOMAIN rows[i] \/ rows[i][left_on].t = "null" THEN <<>>
    ELSE LET k == DictFind(index, rows[i][left_on])
         IN  IF k = 0 THEN <<>>
             ELSE [m \in DOMAIN index[k].vals |-> <<i, index[k].vals[m]>>]

\* One pass of the join loop for the left row at position i: the pairs it
\* adds to joined.
ProbeRow(rows, i, left_on, index) ==
    IF left_on \notin DOMAIN rows[i] THEN <<>>
    ELSE LET k == DictFind(index, rows[i][left_on])
         IN  IF k = 0 THEN <<>>
             ELSE [m \in DOMAIN index[k].vals |-> <<i, index[k].vals[m]>>]

RECURSIVE JoinLoop(_, _, _, _)
JoinLoop(rows, i, left_on, index) ==
    IF i > Len(rows) THEN <<>>
    ELSE ProbeRow(rows, i, left_on, index) \o JoinLoop(rows, i + 1, left_on, index)

Join(rows, other, left_on, right_on) ==
    IF other = <<>> \/ rows = <<>> THEN ReturnRows(<<>>)
    ELSE LET pairs == JoinLoop(rows, 1, left_on, BuildIndex(other, 1, right_on, <<>>))
         IN  [NoResult EXCEPT
                 !.status = "ok",
                 !.pairs = pairs,
                 !.rows = [k \in DOMAIN pairs |->
                              Merge(rows[pairs[k][1]], other[pairs[k][2]])]]

\* The dicts the merge statements of join work on: the left rows, the right
\* rows, the dict merged names, and alias, the position of the left row that
\* merged is (0 when merged is a dict of its own).
JoinObjects(rows, other) ==
    [rows |-> rows, other |-> other, merged |-> <<>>, alias |-> 0]

\* A bug CopyRow could have: merged = row, the left row itself.
CopyRowAlias(store, i) == [store EXCEPT !.merged = store.rows[i], !.alias = i]

\* merged = row.copy(): a new dict with the items of the left row at i.
CopyRow(store, i) == [store EXCEPT !.merged = store.rows[i], !.alias = 0]

\* merged.update(match): the dict merged names is written, the right row at
\* j is only read.
UpdateMerged(store, j) ==
    LET m == Merge(store.merged, store.other[j])
    IN  [store EXCEPT !.merged = m,
                      !.rows = IF store.alias = 0 THEN @
                               ELSE [@ EXCEPT ![store.alias] = m]]

\* The dicts after the merge statements have run for every pair join emits.
RECURSIVE MergeAll(_, _, _)
MergeAll(store, pairs, n) ==
    IF n > Len(pairs) THEN store
    ELSE MergeAll(UpdateMerged(CopyRow(store, pairs[n][1]), pairs[n][2]),
                  pairs, n + 1)

-----------------------------------------------------------------------------
(* Accessors: CSVParser.__getitem__, filter_rows, filter_columns.          *)

\* parser[col]
GetItem(rows, sch, col) ==
    IF col \notin DOMAIN sch THEN RaiseMsg("KeyError", "Column not found")
    ELSE IF \E i \in DOMAIN rows : col \notin DOMAIN rows[i]
    THEN RaiseMsg("KeyError", col)
    ELSE ReturnValues([i \in DOMAIN rows |-> rows[i][col]])

\* The conditions of the model, as the callable passed to filter_rows: each
\* is total and reads the row only.
Conditions == {"PTS is not None", "Tm == LAL", "True", "False"}
Condition(condition, row) ==
    IF condition = "PTS is not None" THEN row["PTS"].t # "null"
    ELSE IF condition = "Tm == LAL" THEN PyEq(row["Tm"], StrV("LAL"))
    ELSE condition = "True"

\* A bug FilterRows could have: the rows are collected newest first.
RECURSIVE FilterRowsReversed(_, _)
FilterRowsReversed(rows, condition) ==
    IF rows = <<>> THEN <<>>
    ELSE FilterRowsReversed(Tail(rows), condition)
         \o (IF Condition(condition, Head(rows)) THEN <<Head(rows)>> ELSE <<>>)

\* [row for row in self.data if condition(row)]
RECURSIVE FilterRows(_, _)
FilterRows(rows, condition) ==
    IF rows = <<>> THEN <<>>
    ELSE (IF Condition(condition, Head(rows)) THEN <<Head(rows)>> ELSE <<>>)
         \o FilterRows(Tail(rows), condition)

\* A bug FilterColumns could have: the columns that are missing are left
\* out of the rows instead of being reported.
FilterColumnsLenient(rows, sch, columns) ==
    ReturnRows([i \in DOMAIN rows |->
        [col \in Range(columns) \cap DOMAIN rows[i] |-> rows[i][col]]])

\* filter_columns(columns)
FilterColumns(rows, sch, columns) ==
    LET missing == SelectSeq(columns, LAMBDA c : c \notin DOMAIN sch)
    IN  IF missing # <<>> THEN RaiseMsg("ValueError", "Columns not found")
        ELSE IF \E i \in DOMAIN rows : ~(Range(columns) \subseteq DOMAIN rows[i])
        THEN RaiseMsg("KeyError", "")
        ELSE ReturnRows([i \in DOMAIN rows |->
                            [col \in Range(columns) |-> rows[i][col]]])

-----------------------------------------------------------------------------
(* Filters: apply_filters (frontend.py).  A filter is a record of a column *)
(* name, an operator and the value text of the form; the texts of the      *)
(* strings that are compared are those of Texts.                           *)

\* The characters in the order of their code points.
CharOrder == <<" ">> \o Digits \o UpperCase \o <<"_">> \o LowerCase
CharCode(c) == CHOOSE i \in DOMAIN CharOrder : CharOrder[i] = c

\* The strings of the model that take part in comparisons, as texts.
Texts ==
    {<<"L", "A", "L">>, <<"G", "S", "W">>, <<"M">>, <<"Z", "Z", "Z">>, <<"x">>}
Chars(s) == CHOOSE cs \in Texts : Str(cs) = s

\* str < str
RECURSIVE LexLess(_, _)
LexLess(a, b) ==
    IF b = <<>> THEN FALSE
    ELSE IF a = <<>> THEN TRUE
    ELSE IF Head(a) # Head(b) THEN CharCode(Head(a)) < CharCode(Head(b))
    ELSE LexLess(Tail(a), Tail(b))

IsNan(v) == v.t = "float" /\ v.d = 0 /\ v.n = 0

\* x < y is defined: two numbers or two strings.
Comparable(x, y) ==
    \/ IsNumber(x) /\ IsNumber(y)
    \/ x.t = "str" /\ y.t = "str"

\* x < y for comparable values.
PyLess(x, y) ==
    IF IsNumber(x) THEN ~IsNan(x) /\ ~IsNan(y) /\ NumLess(x, y)
    ELSE LexLess(Chars(x.s), Chars(y.s))
\* x <= y for comparable values.
PyLessEq(x, y) ==
    IF IsNumber(x) THEN ~IsNan(x) /\ ~IsNan(y) /\ ~NumLess(y, x)
    ELSE ~LexLess(Chars(y.s), Chars(x.s))

\* The value a filter compares with: int(val), else float(val), else val.
FilterValue(val) ==
    IF IsIntLiteral(Strip(val)) THEN IntV(IntLiteralVal(Strip(val)))
    ELSE IF IsFloatLiteral(Strip(val)) THEN FloatLiteralVal(Strip(val))
    ELSE StrV(Str(val))

FilterOps == {">", ">=", "<", "<=", "==", "!="}
OrderingOps == {">", ">=", "<", "<="}

\* row.get(c)
RowGet(row, c) == IF c \in DOMAIN row THEN row[c] ELSE Null

\* The condition built for op, column c and value v raises on the row: an
\* ordering of a non-null value with a value of another kind.
ConditionRaises(op, c, v, row) ==
    /\ op \in OrderingOps
    /\ RowGet(row, c).t # "null"
    /\ ~Comparable(RowGet(row, c), v)

\* The condition built for op, column c and value v, on a row it does not
\* raise on.
ConditionHolds(op, c, v, row) ==
    LET x == RowGet(row, c)
    IN  IF op = ">" THEN x.t # "null" /\ PyLess(v, x)
        ELSE IF op = ">=" THEN x.t # "null" /\ PyLessEq(v, x)
        ELSE IF op = "<" THEN x.t # "null" /\ PyLess(x, v)
        ELSE IF op = "<=" THEN x.t # "null" /\ PyLessEq(x, v)
        ELSE IF op = "==" THEN PyEq(x, v)
        ELSE ~PyEq(x, v)

\* The loop over the filters from the k-th on: a filter without column or
\* value, or with an unknown operator, is passed over; filter_rows with the
\* condition of any other raises when the condition raises on a row.
RECURSIVE ApplyFiltersLoop(_, _, _)
ApplyFiltersLoop(filtered_data, filters, k) ==
    IF k > Len(filters) THEN ReturnRows(filtered_data)
    ELSE LET f == filters[k]
             v == FilterValue(f.value)
         IN  IF f.column = "" \/ f.value = <<>>
             THEN ApplyFiltersLoop(filtered_data, filters, k + 1)
             ELSE IF f.op \notin FilterOps
             THEN ApplyFiltersLoop(filtered_data, filters, k + 1)
             ELSE IF \E i \in DOMAIN filtered_data :
                        ConditionRaises(f.op, f.column, v, filtered_data[i])
             THEN RaiseMsg("TypeError", "not supported between instances")
             ELSE ApplyFiltersLoop(
                      SelectSeq(filtered_data,
                                LAMBDA row : ConditionHolds(f.op, f.column, v, row)),
                      filters, k + 1)

\* apply_filters(data, filters, schema)
ApplyFilters(data_, filters) == ApplyFiltersLoop(data_, filters, 1)

-----------------------------------------------------------------------------
(* The sort step of execute_query (frontend.py).                           *)

\* The attributes class CSVParser defines.
CSVParserMethods ==
    {"__init__", "_parse_csv_line", "_read_csv_file", "_infer_value_type",
     "_infer_schema_all_rows", "parse", "__getitem__", "filter_rows",
     "filter_columns", "aggregate", "join", "get_data", "get_schema", "summary"}

\* Step 5 with a sort column set and no aggregation info: the schema of the
\* working rows is inferred, then temp_parser.sort_data(...) is looked up on
\* a CSVParser, which defines no such attribute.
SortStep(working_data, working_schema, sort_column, reverse) ==
    IF "sort_data" \notin CSVParserMethods
    THEN Raise("AttributeError")
    ELSE NoResult

\* execute_query for a query state that configures at most a sort: steps 1
\* to 4 are skipped by their guards and leave the base rows.
ExecuteQuerySorted(base_data, base_schema, sort_column, sort_order) ==
    IF sort_column # ""
    THEN SortStep(base_data, base_schema, sort_column, sort_order = "desc")
    ELSE ReturnRows(base_data)

-----------------------------------------------------------------------------
(* The query pipeline: apply_aggregation and execute_query (frontend.py).  *)

\* aggregation_function.upper(), for the functions aggregate knows.
Upper(func) ==
    IF func = "sum" THEN "SUM"
    ELSE IF func = "avg" THEN "AVG"
    ELSE IF func = "max" THEN "MAX"
    ELSE IF func = "min" THEN "MIN"
    ELSE IF func = "count" THEN "COUNT"
    ELSE func

\* The column of the aggregated rows: f"{func}({column})".
AggregateColumn(func, column) == func \o "(" \o column \o ")"

\* A step's outcome: rows and aggregation info, or the exception it raises.
Step(rs, info) == [NoResult EXCEPT !.status = "ok", !.rows = rs, !.info = info]

\* apply_aggregation: without a column or a function the rows pass; the
\* temporary parser's schema names the columns of the first row, and is not
\* set at all when there is no row, so that aggregate raises; any exception
\* of aggregate is caught and the rows pass with an error text as info.
ApplyAggregation(data_, aggregation_column, aggregation_function, group_by_column) ==
    IF aggregation_column = "" \/ aggregation_function = "" THEN Step(data_, "")
    ELSE IF data_ = <<>> THEN Step(data_, "Aggregation error")
    ELSE LET sch == [col \in DOMAIN data_[1] |-> "string"]
             r == Aggregate(data_, sch, group_by_column, aggregation_column,
                            aggregation_function)
             name == AggregateColumn(aggregation_function, aggregation_column)
             text == Upper(aggregation_function) \o " of " \o aggregation_column
         IN  IF r.status = "raise" THEN Step(data_, "Aggregation error")
             ELSE IF group_by_column # ""
             THEN Step([k \in DOMAIN r.groups |->
                           (name :> r.groups[k].val)
                               @@ (group_by_column :> r.groups[k].key)],
                       text \o " grouped by " \o group_by_column)
             ELSE Step(<<(name :> r.scalar)>>, text)

\* The names of the loaded datasets: the base dataset and the one a join can
\* name.
LoadedNames == {"base", "other"}

\* Step 1: the join when it is configured and its dataset is loaded.
JoinStep(base_data, other, state) ==
    IF /\ state.join_dataset # "" /\ state.join_left_col # ""
       /\ state.join_right_col # "" /\ state.join_dataset \in LoadedNames
    THEN Join(base_data, other, state.join_left_col, state.join_right_col).rows
    ELSE base_data

\* execute_query(p, state), other being the rows of the dataset a join names:
\* join, filters, column selection, aggregation and sort, each on the rows of
\* the step before; an exception of a step other than aggregation leaves
\* execute_query.
ExecuteQueryPipeline(base_data, base_schema, other, state) ==
    LET joined == JoinStep(base_data, other, state)
        working_schema == SchemaAfterInfer(joined, base_schema)
        filtered ==
            IF state.filters # <<>> THEN ApplyFilters(joined, state.filters)
            ELSE ReturnRows(joined)
        selected ==
            IF ~state.show_all_columns /\ state.selected_columns # <<>>
            THEN FilterColumns(filtered.rows, working_schema, state.selected_columns)
            ELSE ReturnRows(filtered.rows)
        aggregated ==
            ApplyAggregation(selected.rows, state.aggregation_column,
                             state.aggregation_function,
                             state.aggregation_group_by)
    IN  IF filtered.status = "raise" THEN filtered
        ELSE IF selected.status = "raise" THEN selected
        ELSE IF state.sort_column # "" /\ aggregated.info = ""
        THEN SortStep(aggregated.rows, working_schema, state.sort_column,
                      state.sort_order = "desc")
        ELSE aggregated

-----------------------------------------------------------------------------
(* The web server (frontend.py): the loader threads, the sessions and the  *)
(* threads of the index route.                                             *)

\* The loads of a run, the page views of the client while datasets load,
\* and the index requests of the clients once they are loaded.
MaxLoads == 2
MaxViews == 1
MaxRequests == 3

\* The dataset names, the loader threads and the clients of the model.
Names == {"a", "b"}
Loaders == {1, 2}
Sessions == {1, 2}

\* The rows parse gives for the file of a dataset: three for a, one for b.
ServerRows(name) ==
    IF name = "a"
    THEN <<[PTS |-> IntV(1)], [PTS |-> IntV(2)], [PTS |-> IntV(3)]>>
    ELSE <<[PTS |-> IntV(9)]>>

\* get_chunk_size on the scale of the model: a file of fewer than LargeFile
\* rows is loaded at once (0 stands for None), a larger one in chunks of
\* ChunkRows rows.
LargeFile == 2
ChunkRows == 2
GetChunkSize(name) == IF Len(ServerRows(name)) < LargeFile THEN 0 ELSE ChunkRows

\* CSVParser(filepath): no rows, no schema.
NewParser == [data |-> <<>>, schema |-> <<>>]

\* A loader thread: its position, its dataset_name, its local parser, the
\* rows its generator has not yielded, the chunk of the loop, and the dict
\* and value an augmented assignment has read.
IdleLoader ==
    [pc |-> "idle", name |-> "", parser |-> NewParser, rest |-> <<>>,
     chunk |-> <<>>, tmp |-> [obj |-> 0, val |-> 0], runs |-> 0]

\* A session before its first request.
NewSession == [active_dataset |-> "", query_state |-> DefaultState]

\* What index answers: the selection screen, the page with the rows of the
\* query, row_count and current_dataset, or an error.
NoResponse ==
    [status |-> "none", rows |-> <<>>, row_count |-> 0, current_dataset |-> ""]

\* A thread of index: its position, the dataset parameter and the action of
\* its request, its locals previous_dataset and p, and the response; the
\* locals end with the request.
IdleRequest ==
    [pc |-> "idle", dataset |-> "", action |-> "", previous |-> "",
     p |-> NewParser, response |-> NoResponse, runs |-> 0]

\* The server before any request, and in the specifications without server.
ServerDown ==
    /\ parsers = <<>>
    /\ chunk_stats = <<>>
    /\ heap = <<>>
    /\ loading_progress = <<>>
    /\ active_dataset = ""
    /\ sessions = [s \in Sessions |-> NewSession]
    /\ loaders = [t \in Loaders |-> IdleLoader]
    /\ requests = [s \in Sessions |-> IdleRequest]

\* The loads, or the requests, the threads have started so far.
Runs(threads) == threads[1].runs + threads[2].runs

\* d[name] = value
Put(d, name, value) == (name :> value) @@ d

\* The for statement over the chunk generator takes the next chunk, or ends:
\* then the schema is inferred when the parser holds rows.
NextChunk(l) ==
    IF l.rest = <<>>
    THEN [l EXCEPT !.pc = "complete", !.chunk = <<>>,
                   !.parser.schema = SchemaAfterInfer(l.parser.data, @)]
    ELSE LET k == IF Len(l.rest) < GetChunkSize(l.name) THEN Len(l.rest)
                  ELSE GetChunkSize(l.name)
         IN  [l EXCEPT !.pc = "read_chunks",
                       !.chunk = SubSeq(l.rest, 1, k),
                       !.rest = SubSeq(l.rest, k + 1, Len(l.rest))]

\* load_dataset: a thread is started for the dataset, the first that is free.
LoadDataset(t, name) ==
    /\ loaders[t].pc = "idle"
    /\ \A u \in Loaders : u < t => loaders[u].pc # "idle"
    /\ Runs(loaders) < MaxLoads
    /\ loaders' = [loaders EXCEPT ![t] =
           [IdleLoader EXCEPT !.pc = "start", !.name = name,
                              !.runs = loaders[t].runs + 1]]
    /\ UNCHANGED <<parsers, chunk_stats, heap, loading_progress,
                   active_dataset, sessions, requests>>

\* loading_progress[dataset_name] = {'status': 'loading', ...}
LoaderStart(t) ==
    /\ loaders[t].pc = "start"
    /\ loading_progress' =
           Put(loading_progress, loaders[t].name,
               [status |-> "loading", chunks_processed |-> 0,
                total_rows |-> 0, percent |-> 0])
    /\ loaders' = [loaders EXCEPT ![t].pc =
           IF GetChunkSize(loaders[t].name) = 0 THEN "full" ELSE "stats"]
    /\ UNCHANGED <<parsers, chunk_stats, heap, active_dataset, sessions, requests>>

\* A small file: parser.parse() and chunk_stats[dataset_name] = {...}.
LoaderFull(t) ==
    /\ loaders[t].pc = "full"
    /\ LET rows == ServerRows(loaders[t].name)
       IN  /\ heap' = Append(heap, [strategy |-> "full", chunks_processed |-> 1,
                                    total_rows |-> Len(rows)])
           /\ loaders' = [loaders EXCEPT
                  ![t].pc = "complete",
                  ![t].parser = [data |-> rows,
                                 schema |-> SchemaAfterInfer(rows, <<>>)]]
    /\ chunk_stats' = Put(chunk_stats, loaders[t].name, Len(heap'))
    /\ UNCHANGED <<parsers, loading_progress, active_dataset, sessions, requests>>

\* A large file: chunk_stats[dataset_name] = {... 0 ...}, the generator is
\* made and the loop takes its first chunk.
LoaderStats(t) ==
    /\ loaders[t].pc = "stats"
    /\ heap' = Append(heap, [strategy |-> "chunked", chunks_processed |-> 0,
                             total_rows |-> 0])
    /\ chunk_stats' = Put(chunk_stats, loaders[t].name, Len(heap'))
    /\ loaders' = [loaders EXCEPT ![t] =
           NextChunk([loaders[t] EXCEPT !.rest = ServerRows(loaders[t].name)])]
    /\ UNCHANGED <<parsers, loading_progress, active_dataset, sessions, requests>>

\* chunk_stats[dataset_name]['chunks_processed'] += 1, its read: the dict
\* now at dataset_name and its count.
LoaderReadChunks(t) ==
    /\ loaders[t].pc = "read_chunks"
    /\ loaders' = [loaders EXCEPT
           ![t].pc = "write_chunks",
           ![t].tmp = [obj |-> chunk_stats[loaders[t].name],
                       val |-> heap[chunk_stats[loaders[t].name]].chunks_processed]]
    /\ UNCHANGED <<parsers, chunk_stats, heap, loading_progress,
                   active_dataset, sessions, requests>>

\* Its write, into the dict that was read.
LoaderWriteChunks(t) ==
    /\ loaders[t].pc = "write_chunks"
    /\ heap' = [heap EXCEPT ![loaders[t].tmp.obj].chunks_processed =
                    loaders[t].tmp.val + 1]
    /\ loaders' = [loaders EXCEPT ![t].pc = "read_rows",
                                  ![t].tmp = IdleLoader.tmp]
    /\ UNCHANGED <<parsers, chunk_stats, loading_progress, active_dataset,
                   sessions, requests>>

\* chunk_stats[dataset_name]['total_rows'] += len(chunk), its read.
LoaderReadRows(t) ==
    /\ loaders[t].pc = "read_rows"
    /\ loaders' = [loaders EXCEPT
           ![t].pc = "write_rows",
           ![t].tmp = [obj |-> chunk_stats[loaders[t].name],
                       val |-> heap[chunk_stats[loaders[t].name]].total_rows]]
    /\ UNCHANGED <<parsers, chunk_stats, heap, loading_progress,
                   active_dataset, sessions, requests>>

\* A bug LoaderWriteRows could have: the parser is put in the cache while it
\* is being filled.
LoaderWriteRowsPublishing(t) ==
    /\ loaders[t].pc = "write_rows"
    /\ heap' = [heap EXCEPT ![loaders[t].tmp.obj].total_rows =
                    loaders[t].tmp.val + Len(loaders[t].chunk)]
    /\ loaders' = [loaders EXCEPT
           ![t].pc = "progress",
           ![t].tmp = IdleLoader.tmp,
           ![t].parser.data = @ \o loaders[t].chunk]
    /\ parsers' = Put(parsers, loaders[t].name, loaders'[t].parser)
    /\ UNCHANGED <<chunk_stats, loading_progress, active_dataset,
                   sessions, requests>>

\* Its write, and parser.data.extend(chunk) on the thread's own parser.
LoaderWriteRows(t) ==
    /\ loaders[t].pc = "write_rows"
    /\ heap' = [heap EXCEPT ![loaders[t].tmp.obj].total_rows =
                    loaders[t].tmp.val + Len(loaders[t].chunk)]
    /\ loaders' = [loaders EXCEPT
           ![t].pc = "progress",
           ![t].tmp = IdleLoader.tmp,
           ![t].parser.data = @ \o loaders[t].chunk]
    /\ UNCHANGED <<parsers, chunk_stats, loading_progress, active_dataset,
                   sessions, requests>>

\* The two counts of the progress are copied from chunk_stats, and the loop
\* takes its next chunk.
LoaderProgress(t) ==
    /\ loaders[t].pc = "progress"
    /\ LET st == heap[chunk_stats[loaders[t].name]]
       IN  loading_progress' = [loading_progress EXCEPT
               ![loaders[t].name].chunks_processed = st.chunks_processed,
               ![loaders[t].name].total_rows = st.total_rows]
    /\ loaders' = [loaders EXCEPT ![t] = NextChunk(loaders[t])]
    /\ UNCHANGED <<parsers, chunk_stats, heap, active_dataset, sessions, requests>>

\* loading_progress[dataset_name]['status'] = 'complete', in either mode.
LoaderComplete(t) ==
    /\ loaders[t].pc = "complete"
    /\ loading_progress' = [loading_progress EXCEPT
           ![loaders[t].name].status = "complete",
           ![loaders[t].name].percent = 100]
    /\ loaders' = [loaders EXCEPT ![t].pc = "publish"]
    /\ UNCHANGED <<parsers, chunk_stats, heap, active_dataset, sessions, requests>>

\* parsers[dataset_name] = parser, the last assignment of the thread, which
\* ends.
LoaderPublish(t) ==
    /\ loaders[t].pc = "publish"
    /\ parsers' = Put(parsers, loaders[t].name, loaders[t].parser)
    /\ loaders' = [loaders EXCEPT ![t] =
           [IdleLoader EXCEPT !.runs = loaders[t].runs]]
    /\ UNCHANGED <<chunk_stats, heap, loading_progress, active_dataset,
                   sessions, requests>>

\* A request to the index route arrives: its dataset parameter ("" when it
\* has none) and its action ("" for a GET).
IndexRequest(s, dataset, action) ==
    /\ requests[s].pc = "idle"
    /\ requests' = [requests EXCEPT ![s] =
           [IdleRequest EXCEPT !.pc = "select", !.dataset = dataset,
                               !.action = action,
                               !.runs = requests[s].runs + 1]]
    /\ UNCHANGED <<parsers, chunk_stats, heap, loading_progress,
                   active_dataset, sessions, loaders>>

\* The assignment to the global active_dataset: the parameter, else the
\* session's dataset, else None.
IndexSelect(s) ==
    /\ requests[s].pc = "select"
    /\ IF requests[s].dataset # ""
       THEN /\ active_dataset' = requests[s].dataset
            /\ requests' = [requests EXCEPT
                   ![s].pc = "store",
                   ![s].previous = sessions[s].active_dataset]
       ELSE /\ active_dataset' = sessions[s].active_dataset
            /\ requests' = [requests EXCEPT ![s].pc = "check"]
    /\ UNCHANGED <<parsers, chunk_stats, heap, loading_progress, sessions, loaders>>

\* session['active_dataset'] = active_dataset, a read of the global.
IndexStore(s) ==
    /\ requests[s].pc = "store"
    /\ sessions' = [sessions EXCEPT ![s].active_dataset = active_dataset]
    /\ requests' = [requests EXCEPT ![s].pc = "compare"]
    /\ UNCHANGED <<parsers, chunk_stats, heap, loading_progress,
                   active_dataset, loaders>>

\* if previous_dataset is None or previous_dataset != active_dataset: the
\* query state of the session is set to the defaults; a read of the global.
IndexCompare(s) ==
    /\ requests[s].pc = "compare"
    /\ sessions' = [sessions EXCEPT ![s].query_state =
           IF requests[s].previous = "" \/ requests[s].previous # active_dataset
           THEN DefaultState ELSE @]
    /\ requests' = [requests EXCEPT ![s].pc = "check"]
    /\ UNCHANGED <<parsers, chunk_stats, heap, loading_progress,
                   active_dataset, loaders>>

\* if not active_dataset or active_dataset not in parsers: the selection
\* screen is returned.
IndexCheck(s) ==
    /\ requests[s].pc = "check"
    /\ requests' = [requests EXCEPT ![s] =
           IF active_dataset = "" \/ active_dataset \notin DOMAIN parsers
           THEN [@ EXCEPT !.pc = "idle", !.previous = "",
                          !.response.status = "select"]
           ELSE [@ EXCEPT !.pc = "bind"]]
    /\ UNCHANGED <<parsers, chunk_stats, heap, loading_progress,
                   active_dataset, sessions, loaders>>

\* The filter the form of the model adds.
AddedFilter == [column |-> "PTS", op |-> ">", value |-> <<"1">>]

\* The query state after the POST action of the request.
PostAction(state, action) ==
    IF action = "add_filter"
    THEN [state EXCEPT !.filters = Append(@, AddedFilter)]
    ELSE IF action = "clear_all" THEN DefaultState
    ELSE state

\* p = parsers[active_dataset], a read of the global that raises KeyError
\* when the name is not a key; then the action of a POST changes the query
\* state of the session.
IndexBind(s) ==
    /\ requests[s].pc = "bind"
    /\ IF active_dataset \notin DOMAIN parsers
       THEN /\ requests' = [requests EXCEPT ![s].pc = "idle",
                                            ![s].previous = "",
                                            ![s].response.status = "error"]
            /\ UNCHANGED sessions
       ELSE /\ requests' = [requests EXCEPT ![s].pc = "render",
                                            ![s].p = parsers[active_dataset]]
            /\ sessions' = [sessions EXCEPT ![s].query_state =
                   PostAction(@, requests[s].action)]
    /\ UNCHANGED <<parsers, chunk_stats, heap, loading_progress,
                   active_dataset, loaders>>

\* execute_query(p, query_state) and the page: the rows of the query and
\* current_dataset, a read of the global.
IndexRender(s) ==
    /\ requests[s].pc = "render"
    /\ LET r == ExecuteQueryPipeline(requests[s].p.data, requests[s].p.schema,
                                     <<>>, sessions[s].query_state)
       IN  requests' = [requests EXCEPT
               ![s].pc = "idle",
               ![s].previous = "",
               ![s].p = NewParser,
               ![s].response =
                   IF r.status = "raise"
                   THEN [NoResponse EXCEPT !.status = "error"]
                   ELSE [status |-> "page", rows |-> r.rows,
                         row_count |-> Len(requests[s].p.data),
                         current_dataset |-> active_dataset]]
    /\ UNCHANGED <<parsers, chunk_stats, heap, loading_progress,
                   active_dataset, sessions, loaders>>

\* The core of the specifications of the server: no parser of its own.
NoCore ==
    /\ file = <<>>
    /\ data = <<>>
    /\ schema = <<>>
    /\ parses = 0
    /\ gen = NoGen
    /\ batches = <<>>
    /\ other_data = <<>>
    /\ call = NoCall
    /\ result = NoResult

core == <<file, data, schema, parses, gen, batches, other_data, call, result>>

\* Loading: the server starts with nothing loaded; two loader threads and
\* one client that polls the progress and requests the page.
InitLoad == ServerDown /\ NoCore

NextLoad ==
    /\ UNCHANGED core
    /\ \/ \E t \in Loaders, name \in Names : LoadDataset(t, name)
       \/ \E t \in Loaders :
            \/ LoaderStart(t)
            \/ LoaderFull(t)
            \/ LoaderStats(t)
            \/ LoaderReadChunks(t)
            \/ LoaderWriteChunks(t)
            \/ LoaderReadRows(t)
            \/ LoaderWriteRows(t)
            \/ LoaderProgress(t)
            \/ LoaderComplete(t)
            \/ LoaderPublish(t)
       \/ /\ Runs(requests) < MaxViews
          /\ \E name \in Names : IndexRequest(1, name, "")
       \/ IndexSelect(1)
       \/ IndexStore(1)
       \/ IndexCompare(1)
       \/ IndexCheck(1)
       \/ IndexBind(1)
       \/ IndexRender(1)

SpecLoad == InitLoad /\ [][NextLoad]_vars

\* Sessions: both datasets are loaded; two clients send requests to the
\* index route, handled by one thread each.
Loaded(name) ==
    [data |-> ServerRows(name), schema |-> SchemaAfterInfer(ServerRows(name), <<>>)]

InitSessions ==
    /\ parsers = [name \in Names |-> Loaded(name)]
    /\ chunk_stats = <<>>
    /\ heap = <<>>
    /\ loading_progress = <<>>
    /\ active_dataset = ""
    /\ sessions = [s \in Sessions |-> NewSession]
    /\ loaders = [t \in Loaders |-> IdleLoader]
    /\ requests = [s \in Sessions |-> IdleRequest]
    /\ NoCore

NextSessions ==
    /\ UNCHANGED core
    /\ \E s \in Sessions :
        \/ /\ Runs(requests) < MaxRequests
           /\ \E dataset \in Names \cup {""},
                 action \in {"", "add_filter", "clear_all"} :
                   IndexRequest(s, dataset, action)
        \/ IndexSelect(s)
        \/ IndexStore(s)
        \/ IndexCompare(s)
        \/ IndexCheck(s)
        \/ IndexBind(s)
        \/ IndexRender(s)

SpecSessions == InitSessions /\ [][NextSessions]_vars

-----------------------------------------------------------------------------
(* The files of the model.                                                 *)

\* Header lines: two distinct column names, and one name twice.
HeaderPool ==
    {<<"A", ",", "B">>,
     <<"A", ",", "A">>}

\* Data lines: an empty line; a line of one space (one field, a short row);
\* a full row; a long row whose first field is quoted and holds the delimiter.
LinePool ==
    {<<>>,
     <<" ">>,
     <<"x", ",", "2", ".", "5">>,
     <<"\"", "a", ",", "b", "\"", ",", "1", ",", "t", "r", "u", "e">>}

\* The end-to-end scenario of the specification.
ExampleFile ==
    <<<<"P", "l", "a", "y", "e", "r", ",", "T", "m", ",", "P", "T", "S">>,
      <<"A", ",", "L", "A", "L", ",", "3", "0">>,
      <<"B", ",", "G", "S", "W", ",", "2", "5">>,
      <<"C", ",", "L", "A", "L", ",">>>>

\* A file without lines, a header line followed by up to MaxLines lines, and
\* the scenario.
Files ==
    {<<>>, ExampleFile}
        \cup {<<h>> \o ls : h \in HeaderPool, ls \in SeqsUpTo(LinePool, MaxLines)}

-----------------------------------------------------------------------------
(* The parser's life: construction, full-mode parse(), chunked parse().    *)

Init ==
    /\ ServerDown
    /\ file \in Files
    /\ data = <<>>
    /\ schema = <<>>
    /\ parses = 0
    /\ gen = NoGen
    /\ batches = <<>>
    /\ other_data = <<>>
    /\ call = NoCall
    /\ result = NoResult

\* parse(type_inference) with chunk_size None: it returns self.data, for a
\* file without lines too.
ParseFull(type_inference) ==
    /\ parses < MaxParses
    /\ data' = data \o FullParseRows(file, type_inference)
    /\ schema' = SchemaAfterInfer(data', schema)
    /\ parses' = parses + 1
    /\ call' = [NoCall EXCEPT !.op = "parse", !.type_inference = type_inference]
    /\ result' = ReturnRows(data')
    /\ UNCHANGED <<file, gen, batches, other_data, server>>

\* parse(type_inference, chunk_size): the generator is created, not run.
ParseChunked(type_inference, chunk_size) ==
    /\ gen.pc = "none"
    /\ gen' = [NoGen EXCEPT !.pc = "start", !.chunk_size = chunk_size,
                            !.type_inference = type_inference]
    /\ batches' = <<>>
    /\ UNCHANGED <<file, data, schema, parses, other_data, call, result, server>>

\* A bug GenNext could have: the rows of the batch are stored in self.data
\* as full-mode parse() stores them, and the schema is inferred.
GenNextStoresRows ==
    /\ gen.pc \in {"start", "loop", "tail"}
    /\ LET r == GenResume(file, gen)
       IN  /\ gen' = r.gen
           /\ batches' = batches \o r.yielded
           /\ data' = data \o Flatten(r.yielded)
           /\ schema' = SchemaAfterInfer(data', schema)
    /\ UNCHANGED <<file, parses, other_data, call, result, server>>

\* next() on the generator: it runs to its next yield, or to its end.  The
\* rows go to the local list chunk; self.data and self.schema are not used.
GenNext ==
    /\ gen.pc \in {"start", "loop", "tail"}
    /\ LET r == GenResume(file, gen)
       IN  /\ gen' = r.gen
           /\ batches' = batches \o r.yielded
    /\ UNCHANGED <<file, data, schema, parses, other_data, call, result, server>>

Next ==
    \/ \E ti \in BOOLEAN : ParseFull(ti)
    \/ \E ti \in BOOLEAN, k \in 1..MaxChunk : ParseChunked(ti, k)
    \/ GenNext

Spec == Init /\ [][Next]_vars

-----------------------------------------------------------------------------
(* Claims about ingestion, checked under Spec.                        *)

HeaderOf(lines) == ParseCsvLine(lines[1])
DistinctHeader(lines) ==
    \A j, k \in DOMAIN HeaderOf(lines) :
        j # k => HeaderOf(lines)[j] # HeaderOf(lines)[k]
\* The data lines that are not empty, in file order.
DataLines(lines) == SelectSeq(Tail(lines), LAMBDA l : l # <<>>)

\* C1: after the first full-mode parse() of a fresh parser over a file whose
\* header holds H distinct names and which has N non-empty data lines, data
\* holds N rows in file order, every row has exactly the H header columns as
\* keys, column j of row i holds the converted j-th field of line i, and a
\* column past the line's last field holds the converted empty field (null
\* under type inference): short lines are padded, long lines cut.
C1_FullParseShape ==
    (parses = 1 /\ file # <<>> /\ DistinctHeader(file)) =>
        LET header == HeaderOf(file)
            src == DataLines(file)
        IN  /\ Len(data) = Len(src)
            /\ \A i \in DOMAIN data :
                LET fields == ParseCsvLine(src[i])
                IN  /\ DOMAIN data[i] = {Str(header[j]) : j \in DOMAIN header}
                    /\ Cardinality(DOMAIN data[i]) = Len(header)
                    /\ \A j \in DOMAIN header :
                        /\ j <= Len(fields) =>
                            data[i][Str(header[j])]
                                = FieldValue(fields[j], call.type_inference)
                        /\ j > Len(fields) =>
                            data[i][Str(header[j])]
                                = IF call.type_inference THEN Null ELSE StrV("")

\* A parsed file with distinct header names, a short line, a long line and
\* an empty line.
C1_Witness ==
    /\ parses = 1 /\ file # <<>> /\ DistinctHeader(file)
    /\ call.type_inference
    /\ Len(data) >= 2
    /\ \E i \in DOMAIN file : i > 1 /\ file[i] = <<>>
    /\ \E i \in DOMAIN file :
        i > 1 /\ file[i] # <<>> /\ Len(ParseCsvLine(file[i])) < Len(HeaderOf(file))
    /\ \E i \in DOMAIN file :
        i > 1 /\ Len(ParseCsvLine(file[i])) > Len(HeaderOf(file))

\* C2: once the generator of parse(chunk_size=K) is exhausted it has yielded
\* ceil(N/K) batches, every batch but the last of exactly K rows, none empty,
\* and the batches concatenated are the rows full-mode parse() produces for
\* the same file (empty lines make no row and do not count toward K).
C2_ChunkedBatches ==
    gen.pc = "done" =>
        LET K == gen.chunk_size
            full == FullParseRows(file, gen.type_inference)
            N == Len(full)
        IN  /\ Len(batches) = (N + K - 1) \div K
            /\ \A b \in 1..(Len(batches) - 1) : Len(batches[b]) = K
            /\ \A b \in DOMAIN batches :
                batches[b] # <<>> /\ Len(batches[b]) <= K
            /\ Flatten(batches) = full

\* An exhausted generator that yielded a full batch of two rows and then a
\* partial one.
C2_Witness ==
    /\ gen.pc = "done"
    /\ gen.chunk_size = 2
    /\ Len(batches) = 2
    /\ Len(batches[1]) = 2
    /\ Len(batches[2]) = 1

\* C16: full-mode parse() of a file without any line, so without a header
\* line, fails instead of returning a dataset.
C16_EmptyInputFails ==
    (call.op = "parse" /\ file = <<>>) => result.status = "raise"

\* C21: creating the generator of parse(chunk_size=K) and running it, in
\* part or to its end, leaves the parser's data and schema as they were; on
\* a parser that was never parsed in full mode, __getitem__ and
\* filter_columns then reject every column.
C21_ChunkedLeavesParser ==
    [][gen' # gen =>
        /\ data' = data
        /\ schema' = schema
        /\ parses = 0 =>
            \A col \in {"A", "B"} :
                /\ GetItem(data', schema', col).status = "raise"
                /\ FilterColumns(data', schema', <<col>>).status = "raise"]_vars

\* The generator of a parser that was never parsed in full mode is
\* exhausted after two batches, and the parser holds no row and no schema.
C21_Witness ==
    /\ gen.pc = "done"
    /\ Len(batches) = 2
    /\ parses = 0
    /\ data = <<>>
    /\ schema = <<>>

\* C29: after any number of full-mode parse() calls on one parser the data
\* holds the N rows of the file's N non-empty data lines, not more.
C29_ParseIdempotent ==
    parses >= 1 => Len(data) = Len(ReadRows(file, 2))

-----------------------------------------------------------------------------
(* Schema inference over rows already in the parser: the state of the      *)
(* chunked loader after its last batch, before it infers the schema.       *)

ExampleData == FullParseRows(ExampleFile, TRUE)

SchemaRows ==
    {[Tm |-> tm, PTS |-> pts] :
        tm \in {Null, StrV("LAL")},
        pts \in {Null, IntV(30), FloatV(5, 2), BoolV(TRUE), StrV("x")}}

InitSchema ==
    /\ ServerDown
    /\ data \in SeqsUpTo(SchemaRows, MaxSchemaRows) \cup {ExampleData}
    /\ schema = <<>>
    /\ file = <<>>
    /\ parses = 0
    /\ gen = NoGen
    /\ batches = <<>>
    /\ other_data = <<>>
    /\ call = NoCall
    /\ result = NoResult

\* parser._infer_schema_all_rows()
InferSchema ==
    /\ call.op = "none"
    /\ schema' = SchemaAfterInfer(data, schema)
    /\ call' = [NoCall EXCEPT !.op = "infer"]
    /\ UNCHANGED <<file, data, parses, gen, batches, other_data, result, server>>

NextSchema == InferSchema

SpecSchema == InitSchema /\ [][NextSchema]_vars

-----------------------------------------------------------------------------
(* Aggregation on a parsed dataset.                                        *)

AggRows ==
    {[Tm |-> tm, PTS |-> pts] :
        tm \in {Null, StrV("LAL"), StrV("GSW")},
        pts \in {Null, IntV(30), IntV(25)}}

GroupColumns == {"", "Tm", "Pos"}
TargetColumns == {"PTS", "TRB"}
Funcs == {"sum", "avg", "max", "min", "count"}

InitAgg ==
    /\ ServerDown
    /\ data \in SeqsUpTo(AggRows, MaxAggRows) \cup {ExampleData}
    /\ schema = SchemaAfterInfer(data, <<>>)
    /\ file = <<>>
    /\ parses = 0
    /\ gen = NoGen
    /\ batches = <<>>
    /\ other_data = <<>>
    /\ call = NoCall
    /\ result = NoResult

\* parser.aggregate(group_by, target_col, func)
AggregateCall(group_by, target_col, func) ==
    /\ result' = Aggregate(data, schema, group_by, target_col, func)
    /\ call' = [NoCall EXCEPT !.op = "aggregate", !.group_by = group_by,
                              !.target_col = target_col, !.func = func]
    /\ UNCHANGED <<file, data, schema, parses, gen, batches, other_data, server>>

NextAgg ==
    \E g \in GroupColumns, t \in TargetColumns, f \in Funcs \cup {"median"} :
        AggregateCall(g, t, f)

SpecAgg == InitAgg /\ [][NextAgg]_vars

-----------------------------------------------------------------------------
(* Join of a parsed dataset with a list of rows.                           *)

LeftRows == {[k |-> key, x |-> IntV(0)] : key \in {IntV(1), IntV(2), IntV(3), Null}}

\* Right rows: with the key column, without it, and with a column the left
\* rows also have.
RightRows ==
    {[k |-> IntV(2), y |-> IntV(9)], [k |-> IntV(4), y |-> IntV(9)],
     [k |-> Null, y |-> IntV(9)], [y |-> IntV(9)],
     [k |-> FloatV(2, 1), x |-> IntV(5)]}

InitJoin ==
    /\ ServerDown
    /\ data \in SeqsUpTo(LeftRows, MaxLeft)
    /\ schema = SchemaAfterInfer(data, <<>>)
    /\ other_data \in SeqsUpTo(RightRows, MaxOther)
    /\ file = <<>>
    /\ parses = 0
    /\ gen = NoGen
    /\ batches = <<>>
    /\ call = NoCall
    /\ result = NoResult

\* parser.join(other_data, left_on, right_on)
JoinCall(left_on, right_on) ==
    /\ result' = Join(data, other_data, left_on, right_on)
    /\ LET store == MergeAll(JoinObjects(data, other_data), result'.pairs, 1)
       IN  /\ data' = store.rows
           /\ other_data' = store.other
    /\ call' = [NoCall EXCEPT !.op = "join", !.left_on = left_on,
                              !.right_on = right_on]
    /\ UNCHANGED <<file, schema, parses, gen, batches, server>>

NextJoin == \E l \in {"k", "x", "z"}, r \in {"k", "y"} : JoinCall(l, r)

SpecJoin == InitJoin /\ [][NextJoin]_vars

-----------------------------------------------------------------------------
(* The sort step of execute_query on a parsed dataset.                     *)

\* Rows numbered by position, so that equal keys can be told apart.
SortDatasets ==
    {[i \in DOMAIN vs |-> [id |-> IntV(i), v |-> vs[i]]] :
        vs \in SeqsUpTo({Null, IntV(1), IntV(3)}, MaxSortRows)}

InitSort ==
    /\ ServerDown
    /\ data \in SortDatasets
    /\ schema = SchemaAfterInfer(data, <<>>)
    /\ file = <<>>
    /\ parses = 0
    /\ gen = NoGen
    /\ batches = <<>>
    /\ other_data = <<>>
    /\ call = NoCall
    /\ result = NoResult

\* execute_query(p, state) with only sort_column and sort_order configured.
ExecuteQuery(sort_column, sort_order) ==
    /\ result' = ExecuteQuerySorted(data, schema, sort_column, sort_order)
    /\ call' = [NoCall EXCEPT !.op = "execute_query", !.column = sort_column,
                              !.reverse = (sort_order = "desc")]
    /\ UNCHANGED <<file, data, schema, parses, gen, batches, other_data, server>>

NextSort == \E c \in {"", "v", "w"}, o \in {"asc", "desc"} : ExecuteQuery(c, o)

SpecSort == InitSort /\ [][NextSort]_vars

-----------------------------------------------------------------------------
(* A session of query calls on a parsed dataset, as in main.py.            *)

MaxQueryRows == 2

QueryRows ==
    {[Tm |-> StrV("LAL"), PTS |-> IntV(30)],
     [Tm |-> StrV("GSW"), PTS |-> Null],
     [Tm |-> Null, PTS |-> IntV(25)]}

\* Rows of the other dataset: a coach of a team, a row that also holds
\* column PTS, a row without the key column.
QueryOther ==
    {[Tm |-> StrV("LAL"), Coach |-> StrV("Ham")],
     [Tm |-> StrV("LAL"), PTS |-> IntV(0)],
     [Coach |-> StrV("Kerr")]}

ColumnLists ==
    {<<>>, <<"Tm">>, <<"PTS", "Tm">>, <<"Tm", "Tm">>, <<"Coach">>,
     <<"Tm", "Coach">>}

InitQuery ==
    /\ ServerDown
    /\ data \in SeqsUpTo(QueryRows, MaxQueryRows) \cup {ExampleData}
    /\ schema = SchemaAfterInfer(data, <<>>)
    /\ other_data \in SeqsUpTo(QueryOther, MaxOther)
    /\ file = <<>>
    /\ parses = 0
    /\ gen = NoGen
    /\ batches = <<>>
    /\ call = NoCall
    /\ result = NoResult

\* parser[col]
GetItemCall(col) ==
    /\ result' = GetItem(data, schema, col)
    /\ call' = [NoCall EXCEPT !.op = "__getitem__", !.column = col]
    /\ UNCHANGED <<file, data, schema, parses, gen, batches, other_data, server>>

\* parser.filter_rows(condition)
FilterRowsCall(condition) ==
    /\ result' = ReturnRows(FilterRows(data, condition))
    /\ call' = [NoCall EXCEPT !.op = "filter_rows", !.condition = condition]
    /\ UNCHANGED <<file, data, schema, parses, gen, batches, other_data, server>>

\* parser.filter_columns(columns)
FilterColumnsCall(columns) ==
    /\ result' = FilterColumns(data, schema, columns)
    /\ call' = [NoCall EXCEPT !.op = "filter_columns", !.columns = columns]
    /\ UNCHANGED <<file, data, schema, parses, gen, batches, other_data, server>>

NextQuery ==
    \/ \E col \in {"Tm", "PTS", "Coach"} : GetItemCall(col)
    \/ \E c \in Conditions : FilterRowsCall(c)
    \/ \E cols \in ColumnLists : FilterColumnsCall(cols)
    \/ \E g \in GroupColumns, t \in TargetColumns, f \in Funcs \cup {"median"} :
            AggregateCall(g, t, f)
    \/ \E l \in {"Tm", "Coach"}, r \in {"Tm", "Coach"} : JoinCall(l, r)

SpecQuery == InitQuery /\ [][NextQuery]_vars

-----------------------------------------------------------------------------
(* The tokenizer applied to one line.                                      *)

MaxTokenLen == 5

\* The line a,"b""c" of the quoting round trip.
QuotedLine == <<"a", ",", "\"", "b", "\"", "\"", "c", "\"">>

\* Lines over a letter, the delimiter and the quote, and the round-trip line.
TokenLines == SeqsUpTo({"a", Delimiter, Quote}, MaxTokenLen) \cup {QuotedLine}

InitTokenize ==
    /\ ServerDown
    /\ call \in {[NoCall EXCEPT !.text = line] : line \in TokenLines}
    /\ file = <<>>
    /\ data = <<>>
    /\ schema = <<>>
    /\ parses = 0
    /\ gen = NoGen
    /\ batches = <<>>
    /\ other_data = <<>>
    /\ result = NoResult

\* self._parse_csv_line(line)
ParseCsvLineCall ==
    /\ call.op = "none"
    /\ result' = ReturnFields(ParseCsvLine(call.text))
    /\ call' = [call EXCEPT !.op = "_parse_csv_line"]
    /\ UNCHANGED <<file, data, schema, parses, gen, batches, other_data, server>>

NextTokenize == ParseCsvLineCall

SpecTokenize == InitTokenize /\ [][NextTokenize]_vars

-----------------------------------------------------------------------------
(* Value inference applied to one field.                                   *)

MaxPad == 1

\* Up to MaxPad spaces.
Pads == SeqsUpTo({" "}, MaxPad)

\* Number-like texts: an optional sign, digits, an optional point and
\* fraction, an optional exponent, each part possibly missing.
NumberTexts ==
    {sign \o int \o point \o frac \o exp :
        sign \in {<<>>, <<"-">>, <<"+">>},
        int \in {<<>>, <<"7">>, <<"1", "2">>},
        point \in {<<>>, <<".">>},
        frac \in {<<>>, <<"5">>},
        exp \in {<<>>, <<"e">>, <<"e", "1">>, <<"E", "-", "1">>}}

\* Words: booleans in several cases, the words float() knows, digits with
\* an underscore, plain text.
WordTexts ==
    {<<"t", "r", "u", "e">>, <<"T", "R", "U", "E">>, <<"F", "a", "l", "s", "e">>,
     <<"n", "a", "n">>, <<"i", "n", "f">>, <<"-", "I", "n", "f">>,
     <<"1", "_", "0">>, <<"y", "e", "s">>, <<"L", " ", "A">>}

FieldTexts ==
    {l \o t \o r : l \in Pads, t \in NumberTexts \cup WordTexts, r \in Pads}

InitValue ==
    /\ ServerDown
    /\ call \in {[NoCall EXCEPT !.text = t] : t \in FieldTexts}
    /\ file = <<>>
    /\ data = <<>>
    /\ schema = <<>>
    /\ parses = 0
    /\ gen = NoGen
    /\ batches = <<>>
    /\ other_data = <<>>
    /\ result = NoResult

\* The value parse(type_inference) stores for the field.
InferValueCall(type_inference) ==
    /\ call.op = "none"
    /\ result' = ReturnScalar(FieldValue(call.text, type_inference))
    /\ call' = [call EXCEPT !.op = "_infer_value_type",
                            !.type_inference = type_inference]
    /\ UNCHANGED <<file, data, schema, parses, gen, batches, other_data, server>>

NextValue == \E ti \in BOOLEAN : InferValueCall(ti)

SpecValue == InitValue /\ [][NextValue]_vars

-----------------------------------------------------------------------------
(* apply_filters on the rows of a dataset.                                 *)

MaxFilterRows == 2
MaxFilters == 2

FilterRowPool ==
    {[Tm |-> StrV("LAL"), PTS |-> IntV(30)],
     [Tm |-> StrV("GSW"), PTS |-> IntV(25)],
     [Tm |-> Null, PTS |-> Null]}

\* Filters as the form sends them: comparisons of a number column and of a
\* string column, a filter without value, one without column, one with an
\* unknown operator, and an ordering of the string column with a number.
FilterPool ==
    {[column |-> "PTS", op |-> ">", value |-> <<"2", "5">>],
     [column |-> "PTS", op |-> "<=", value |-> <<"3", "0", ".", "0">>],
     [column |-> "Tm", op |-> "==", value |-> <<"L", "A", "L">>],
     [column |-> "Tm", op |-> "!=", value |-> <<"Z", "Z", "Z">>],
     [column |-> "Tm", op |-> "<", value |-> <<"M">>],
     [column |-> "PTS", op |-> ">", value |-> <<>>],
     [column |-> "", op |-> "==", value |-> <<"5">>],
     [column |-> "PTS", op |-> "~", value |-> <<"5">>],
     [column |-> "Tm", op |-> ">", value |-> <<"5">>]}

InitFilters ==
    /\ ServerDown
    /\ data \in SeqsUpTo(FilterRowPool, MaxFilterRows)
    /\ schema = SchemaAfterInfer(data, <<>>)
    /\ call \in {[NoCall EXCEPT !.filters = fs] :
                    fs \in SeqsUpTo(FilterPool, MaxFilters)}
    /\ file = <<>>
    /\ parses = 0
    /\ gen = NoGen
    /\ batches = <<>>
    /\ other_data = <<>>
    /\ result = NoResult

\* apply_filters(p.data, state['filters'], p.schema)
ApplyFiltersCall ==
    /\ call.op = "none"
    /\ result' = ApplyFilters(data, call.filters)
    /\ call' = [call EXCEPT !.op = "apply_filters"]
    /\ UNCHANGED <<file, data, schema, parses, gen, batches, other_data, server>>

NextFilters == ApplyFiltersCall

SpecFilters == InitFilters /\ [][NextFilters]_vars

-----------------------------------------------------------------------------
(* execute_query on a loaded dataset with a configured query state.        *)

MaxPipelineRows == 2

\* The rows of the dataset a join names.
PipelineOther ==
    <<[Tm |-> StrV("LAL"), W |-> IntV(50)], [Tm |-> Null, W |-> IntV(0)]>>

JoinSettings ==
    {[d |-> "", l |-> "", r |-> ""],
     [d |-> "other", l |-> "Tm", r |-> "Tm"],
     [d |-> "missing", l |-> "Tm", r |-> "Tm"]}
FilterSettings ==
    {<<>>,
     <<[column |-> "PTS", op |-> ">", value |-> <<"2", "5">>]>>,
     <<[column |-> "Tm", op |-> "!=", value |-> <<"Z", "Z", "Z">>],
       [column |-> "Tm", op |-> "<", value |-> <<"M">>]>>}
ColumnSettings ==
    {[all |-> TRUE, cols |-> <<>>],
     [all |-> FALSE, cols |-> <<"PTS">>],
     [all |-> FALSE, cols |-> <<"Tm", "PTS">>]}
AggregationSettings ==
    {[c |-> "", f |-> "", g |-> ""],
     [c |-> "PTS", f |-> "sum", g |-> ""],
     [c |-> "PTS", f |-> "count", g |-> "Tm"]}
SortSettings ==
    {[c |-> "", o |-> "desc"], [c |-> "PTS", o |-> "desc"],
     [c |-> "PTS", o |-> "asc"]}

\* The query states the forms of the page can build from these settings.
States ==
    {[DefaultState EXCEPT
         !.join_dataset = j.d, !.join_left_col = j.l, !.join_right_col = j.r,
         !.filters = fs, !.show_all_columns = cs.all,
         !.selected_columns = cs.cols, !.aggregation_column = a.c,
         !.aggregation_function = a.f, !.aggregation_group_by = a.g,
         !.sort_column = s.c, !.sort_order = s.o] :
        j \in JoinSettings, fs \in FilterSettings, cs \in ColumnSettings,
        a \in AggregationSettings, s \in SortSettings}

InitPipeline ==
    /\ ServerDown
    /\ data \in SeqsUpTo(FilterRowPool, MaxPipelineRows)
    /\ schema = SchemaAfterInfer(data, <<>>)
    /\ other_data = PipelineOther
    /\ call \in {[NoCall EXCEPT !.state = s] : s \in States}
    /\ file = <<>>
    /\ parses = 0
    /\ gen = NoGen
    /\ batches = <<>>
    /\ result = NoResult

\* execute_query(p, query_state) of the index route.
ExecuteQueryCall ==
    /\ call.op = "none"
    /\ result' = ExecuteQueryPipeline(data, schema, other_data, call.state)
    /\ call' = [call EXCEPT !.op = "execute_query"]
    /\ UNCHANGED <<file, data, schema, parses, gen, batches, other_data, server>>

NextPipeline == ExecuteQueryCall

SpecPipeline == InitPipeline /\ [][NextPipeline]_vars

-----------------------------------------------------------------------------
(* Claims about schema inference, checked under SpecSchema.                *)

\* The rows of rs in the order perm gives.
Permuted(rs, perm) == [i \in DOMAIN rs |-> rs[perm[i]]]

\* C3: after schema inference a column that holds at least one integer and
\* otherwise only integers and nulls has type int: nulls are ignored.
C3_NullsDoNotBlockInt ==
    (call.op = "infer" /\ data # <<>>) =>
        \A col \in DOMAIN data[1] :
            (/\ \E i \in DOMAIN data : data[i][col].t = "int"
             /\ \A i \in DOMAIN data : data[i][col].t \in {"int", "null"})
            => schema[col] = "int"

\* C4: the schema inferred for the rows is the schema inferred for every
\* permutation of them.
C4_OrderIndependent ==
    (call.op = "infer" /\ data # <<>>) =>
        \A perm \in Permutations(DOMAIN data) :
            InferSchemaAllRows(Permuted(data, perm)) = schema

\* Inference has run over rows whose first row makes PTS int and Tm string
\* and whose later rows hold a value of another type in PTS.
C4_Witness ==
    /\ call.op = "infer"
    /\ Len(data) >= 3
    /\ data[1].PTS.t = "int"
    /\ data[2].PTS.t = "float"
    /\ data[3].PTS.t = "int"
    /\ schema.PTS = "string"
    /\ schema.Tm = "string"

\* The schema tag of a runtime type.
TagOf(type) == IF type = "str" THEN "string" ELSE type

\* C19: after schema inference a column is string when it holds two
\* non-null values of different runtime types (an int and a float, an int
\* and a bool, ...), when it was string after some prefix of the rows, and
\* when it holds no non-null value.
C19_StringPromotion ==
    (call.op = "infer" /\ data # <<>>) =>
        \A col \in DOMAIN data[1] :
            /\ (\E i, j \in DOMAIN data :
                    /\ data[i][col].t # "null"
                    /\ data[j][col].t # "null"
                    /\ data[i][col].t # data[j][col].t)
                => schema[col] = "string"
            /\ (\E k \in DOMAIN data :
                    InferSchemaAllRows(SubSeq(data, 1, k))[col] = "string")
                => schema[col] = "string"
            /\ (\A i \in DOMAIN data : data[i][col].t = "null")
                => schema[col] = "string"

\* C20: after schema inference a column that holds only values of one
\* runtime type (no null among them) has the tag of that type: bool for
\* booleans, int, float and string likewise.
C20_TagOfEachType ==
    (call.op = "infer" /\ data # <<>>) =>
        \A col \in DOMAIN data[1], type \in {"int", "float", "bool", "str"} :
            (\A i \in DOMAIN data : data[i][col].t = type)
            => schema[col] = TagOf(type)

-----------------------------------------------------------------------------
(* Claims about aggregation, checked under SpecAgg.                        *)

AggColumnsExist ==
    /\ call.op = "aggregate"
    /\ call.target_col \in DOMAIN schema
    /\ call.group_by = "" \/ call.group_by \in DOMAIN schema

\* The non-null target values of the rows whose group value equals key.
GroupValues(key) ==
    NonNullValues(SelectSeq(data, LAMBDA r : PyEq(r[call.group_by], key)),
                  call.target_col)

\* C5: avg, max and min over a scope without non-null target values (the
\* whole dataset, or one group) return null for that scope and do not raise.
C5_EmptyScopeIsNull ==
    (AggColumnsExist /\ call.func \in {"avg", "max", "min"}) =>
        IF call.group_by = ""
        THEN NonNullValues(data, call.target_col) = <<>> =>
                result.status = "ok" /\ result.scalar = Null
        ELSE \A i \in DOMAIN data :
                GroupValues(data[i][call.group_by]) = <<>> =>
                    /\ result.status = "ok"
                    /\ \E k \in DOMAIN result.groups :
                        /\ PyEq(result.groups[k].key, data[i][call.group_by])
                        /\ result.groups[k].val = Null

\* What the specification asks of func over the non-null values in scope.
ExpectedAggregate(func, vals) ==
    IF func = "sum" THEN PySum(vals, IntV(0))
    ELSE IF func = "count" THEN IntV(Len(vals))
    ELSE IF vals = <<>> THEN Null
    ELSE IF func = "avg"
    THEN FloatV(PySum(vals, IntV(0)).n, PySum(vals, IntV(0)).d * Len(vals))
    ELSE IF func = "max"
    THEN CHOOSE v \in Range(vals) : \A w \in Range(vals) : ~NumLess(v, w)
    ELSE CHOOSE v \in Range(vals) : \A w \in Range(vals) : ~NumLess(w, v)

\* The keys of the mapping are the distinct group values of the rows, and
\* every key maps to func over the non-null target values of its rows.
GroupsAreCorrect ==
    /\ \A i \in DOMAIN data : \E k \in DOMAIN result.groups :
            PyEq(result.groups[k].key, data[i][call.group_by])
    /\ \A k \in DOMAIN result.groups : \E i \in DOMAIN data :
            PyEq(result.groups[k].key, data[i][call.group_by])
    /\ \A k1, k2 \in DOMAIN result.groups :
            k1 # k2 => ~PyEq(result.groups[k1].key, result.groups[k2].key)
    /\ \A k \in DOMAIN result.groups :
            result.groups[k].val
                = ExpectedAggregate(call.func, GroupValues(result.groups[k].key))

\* C6: aggregate with a group_by column returns a mapping from exactly the
\* distinct group values (null included) to func over the non-null target
\* values of that group's rows.
C6_GroupedAggregate ==
    (AggColumnsExist /\ call.group_by # "" /\ call.func \in Funcs) =>
        result.status = "ok" /\ GroupsAreCorrect

\* Whenever the grouped call returns, its mapping is the one C6 describes; it
\* raises exactly when func is avg, max or min and some group has no
\* non-null target value.
GroupedAggregateWhenReturned ==
    (AggColumnsExist /\ call.group_by # "" /\ call.func \in Funcs) =>
        /\ result.status = "ok" => GroupsAreCorrect
        /\ result.status = "raise" <=>
            /\ call.func \in {"avg", "max", "min"}
            /\ \E i \in DOMAIN data : GroupValues(data[i][call.group_by]) = <<>>

\* C17: aggregate with existing columns and a func other than sum, avg,
\* max, min and count raises the unsupported-function error, with a group_by
\* column and without one, and returns nothing.
C17_UnsupportedFunc ==
    (AggColumnsExist /\ call.func \notin Funcs) =>
        /\ result.status = "raise"
        /\ result.exc = "ValueError"
        /\ result.msg = "Unsupported function"
        /\ result.groups = <<>>
        /\ result.scalar = Null

\* A grouped median over rows of two groups, one of them without a non-null
\* target value, has raised.
C17_Witness ==
    /\ AggColumnsExist
    /\ call.func = "median"
    /\ call.group_by = "Tm"
    /\ Len(data) = 3
    /\ data[1].Tm # data[2].Tm
    /\ data[1].PTS = Null
    /\ data[2].PTS # Null
    /\ result.status = "raise"

-----------------------------------------------------------------------------
(* Claims about join, checked under SpecJoin.                              *)

\* The pairs (left position, right position) of rows that both hold their
\* join key, with equal key values.
MatchingPairs ==
    {<<i, j>> \in (DOMAIN data) \X (DOMAIN other_data) :
        /\ call.left_on \in DOMAIN data[i]
        /\ call.right_on \in DOMAIN other_data[j]
        /\ PyEq(data[i][call.left_on], other_data[j][call.right_on])}

\* C7: join emits one merged row for each pair of a left and a right row
\* that both hold their join key with equal values, and nothing else.
C7_JoinStrictlyInner ==
    call.op = "join" =>
        /\ result.status = "ok"
        /\ Len(result.rows) = Cardinality(MatchingPairs)
        /\ Len(result.pairs) = Len(result.rows)
        /\ Range(result.pairs) = MatchingPairs

\* Left keys 1, 2, 3 joined on k with right keys 2, 4: one row, for key 2.
C7_Witness ==
    /\ call.op = "join" /\ call.left_on = "k" /\ call.right_on = "k"
    /\ data = <<[k |-> IntV(1), x |-> IntV(0)], [k |-> IntV(2), x |-> IntV(0)],
                [k |-> IntV(3), x |-> IntV(0)]>>
    /\ other_data = <<[k |-> IntV(2), y |-> IntV(9)], [k |-> IntV(4), y |-> IntV(9)]>>
    /\ Len(result.rows) = 1
    /\ result.rows[1].k = IntV(2)

\* C8: a joined row has the columns of its left row and of its right row;
\* a column of the right row holds the right value, any other column the
\* left value.
C8_MergeRightWins ==
    call.op = "join" =>
        \A n \in DOMAIN result.rows :
            LET left == data[result.pairs[n][1]]
                right == other_data[result.pairs[n][2]]
            IN  /\ DOMAIN result.rows[n] = (DOMAIN left) \cup (DOMAIN right)
                /\ \A col \in DOMAIN right : result.rows[n][col] = right[col]
                /\ \A col \in (DOMAIN left) \ (DOMAIN right) :
                        result.rows[n][col] = left[col]

\* A joined row whose left and right rows both hold column x, with
\* different values, and each a column the other lacks.
C8_Witness ==
    /\ call.op = "join"
    /\ \E n \in DOMAIN result.rows :
        LET left == data[result.pairs[n][1]]
            right == other_data[result.pairs[n][2]]
        IN  /\ "x" \in DOMAIN right
            /\ left.x # right.x
            /\ result.rows[n].x = right.x

\* C9: the output is ordered by left position, then by right position, so
\* the rows of one left row are consecutive and as many as its matches.
C9_JoinOrder ==
    call.op = "join" =>
        /\ \A m, n \in DOMAIN result.pairs :
            m < n =>
                \/ result.pairs[m][1] < result.pairs[n][1]
                \/ /\ result.pairs[m][1] = result.pairs[n][1]
                   /\ result.pairs[m][2] < result.pairs[n][2]
        /\ \A i \in DOMAIN data :
            Cardinality({n \in DOMAIN result.pairs : result.pairs[n][1] = i})
                = Cardinality({j \in DOMAIN other_data : <<i, j>> \in MatchingPairs})

\* Two left rows that each match the same two right rows.
C9_Witness ==
    /\ call.op = "join"
    /\ Len(result.pairs) = 4
    /\ result.pairs[1] = <<1, 1>> /\ result.pairs[2] = <<1, 2>>
    /\ result.pairs[3][1] = result.pairs[4][1]

\* C30: a left row whose key is null is joined with every right row whose
\* key is null, and with no other; a left row gives no joined row only when
\* it lacks the key column or no right row holds an equal key.
C30_NullIsOrdinaryKey ==
    call.op = "join" =>
        /\ \A i \in DOMAIN data :
            (call.left_on \in DOMAIN data[i] /\ data[i][call.left_on] = Null) =>
                {j \in DOMAIN other_data : <<i, j>> \in Range(result.pairs)}
                    = {j \in DOMAIN other_data :
                          /\ call.right_on \in DOMAIN other_data[j]
                          /\ other_data[j][call.right_on] = Null}
        /\ \A i \in DOMAIN data :
            (\A n \in DOMAIN result.pairs : result.pairs[n][1] # i) =>
                \/ call.left_on \notin DOMAIN data[i]
                \/ \A j \in DOMAIN other_data :
                        call.right_on \in DOMAIN other_data[j] =>
                            ~PyEq(data[i][call.left_on], other_data[j][call.right_on])

\* A left row and a right row that both hold a null key have been merged,
\* while a right row without the key column has not been.
C30_Witness ==
    /\ call.op = "join" /\ call.left_on = "k" /\ call.right_on = "k"
    /\ \E n \in DOMAIN result.pairs :
        /\ data[result.pairs[n][1]].k = Null
        /\ other_data[result.pairs[n][2]].k = Null
        /\ result.rows[n].k = Null
    /\ \E j \in DOMAIN other_data : "k" \notin DOMAIN other_data[j]

-----------------------------------------------------------------------------
(* Claims about sort, checked under SpecSort.                              *)

\* Null is below every value; numbers by value.
KeyLess(a, b) ==
    IF a.t = "null" THEN b.t # "null"
    ELSE IF b.t = "null" THEN FALSE
    ELSE NumLess(a, b)

\* out holds the rows of rs ordered by col (descending when reverse), rows
\* with equal keys in their order in rs.
IsStableSort(out, rs, col, reverse) ==
    /\ Len(out) = Len(rs)
    /\ \E perm \in Permutations(DOMAIN rs) :
        /\ out = Permuted(rs, perm)
        /\ \A m, n \in DOMAIN rs :
            m < n =>
                LET a == rs[perm[m]][col]
                    b == rs[perm[n]][col]
                IN  /\ IF reverse THEN ~KeyLess(a, b) ELSE ~KeyLess(b, a)
                    /\ (~KeyLess(a, b) /\ ~KeyLess(b, a)) => perm[m] < perm[n]

\* C10: sorting by a column of the rows returns the rows as a stable sort by
\* that column with null as the least value, in either direction.
C10_SortStableNullMin ==
    (call.op = "execute_query" /\ data # <<>> /\ call.column \in DOMAIN data[1]) =>
        /\ result.status = "ok"
        /\ IsStableSort(result.rows, data, call.column, call.reverse)

-----------------------------------------------------------------------------
(* Claims about the query calls, checked under SpecQuery.                  *)

\* C11: no call of __getitem__, filter_rows, filter_columns, aggregate or
\* join, whether it returns or raises, changes the parser's rows, its schema
\* or the rows of join's other_data.
C11_QueriesDoNotMutate ==
    [][data' = data /\ schema' = schema /\ other_data' = other_data]_vars

\* A join has returned a merged row that holds the right row's value of a
\* column the left row also holds, and the left row still holds its own.
C11_Witness ==
    /\ call.op = "join"
    /\ \E n \in DOMAIN result.rows :
        /\ result.rows[n].PTS = IntV(0)
        /\ data[result.pairs[n][1]].PTS = IntV(30)
        /\ other_data[result.pairs[n][2]].PTS = IntV(0)

\* C12: filter_columns raises the column-not-found error when a requested
\* column is not in the schema; otherwise it returns one row per row of the
\* dataset, in order, each holding exactly the requested columns with the
\* values of its source row.
C12_FilterColumns ==
    call.op = "filter_columns" =>
        IF \E j \in DOMAIN call.columns : call.columns[j] \notin DOMAIN schema
        THEN /\ result.status = "raise"
             /\ result.exc = "ValueError"
             /\ result.msg = "Columns not found"
        ELSE /\ result.status = "ok"
             /\ Len(result.rows) = Len(data)
             /\ \A i \in DOMAIN data :
                 /\ DOMAIN result.rows[i] = Range(call.columns)
                 /\ \A col \in Range(call.columns) :
                        result.rows[i][col] = data[i][col]

\* Three rows of three columns projected on Tm alone.
C12_Witness ==
    /\ call.op = "filter_columns"
    /\ call.columns = <<"Tm">>
    /\ Len(data) = 3
    /\ result.status = "ok"
    /\ result.rows[1] # data[1]
    /\ result.rows[1].Tm = data[1].Tm
    /\ result.rows[1] # result.rows[2]

\* The positions of the rows of the dataset the condition of the call holds
\* for.
Kept == {i \in DOMAIN data : Condition(call.condition, data[i])}

\* C13: filter_rows returns the rows the condition holds for, each once, in
\* their order in the dataset.
C13_FilterRows ==
    call.op = "filter_rows" =>
        /\ result.status = "ok"
        /\ Len(result.rows) = Cardinality(Kept)
        /\ \E f \in [DOMAIN result.rows -> DOMAIN data] :
            /\ \A n1, n2 \in DOMAIN result.rows : n1 < n2 => f[n1] < f[n2]
            /\ {f[n] : n \in DOMAIN result.rows} = Kept
            /\ \A n \in DOMAIN result.rows : result.rows[n] = data[f[n]]

\* The first and the third of three different rows are kept, the second is
\* dropped.
C13_Witness ==
    /\ call.op = "filter_rows"
    /\ call.condition = "Tm == LAL"
    /\ Len(data) = 3
    /\ Kept = {1, 3}
    /\ data[1] # data[3]
    /\ result.rows = <<data[1], data[3]>>

-----------------------------------------------------------------------------
(* Claims about the tokenizer, checked under SpecTokenize.                 *)

\* The scan before it reads position i, by the rule of the tokenizer's
\* contract: inq tells whether it is inside quotes, esc whether the character
\* at i is the second quote of an escaped pair, consumed with the first.
RECURSIVE ScanBefore(_, _)
ScanBefore(line, i) ==
    IF i = 1 THEN [inq |-> FALSE, esc |-> FALSE]
    ELSE LET before == ScanBefore(line, i - 1)
         IN  IF before.esc THEN [inq |-> before.inq, esc |-> FALSE]
             ELSE IF line[i - 1] # Quote THEN [inq |-> before.inq, esc |-> FALSE]
             ELSE IF before.inq /\ line[i] = Quote THEN [inq |-> TRUE, esc |-> TRUE]
             ELSE [inq |-> ~before.inq, esc |-> FALSE]

\* The character at i is a delimiter seen outside quotes.
EndsField(line, i) == line[i] = Delimiter /\ ~ScanBefore(line, i).inq

\* The character at i is part of its field's text: an escaped quote, or a
\* character that is neither a quote nor a field-ending delimiter.
InField(line, i) ==
    \/ ScanBefore(line, i).esc
    \/ line[i] # Quote /\ ~EndsField(line, i)

\* The positions of line, in order, that satisfy Test.
PositionsWhere(line, Test(_, _)) ==
    SelectSeq([i \in 1..Len(line) |-> i], LAMBDA i : Test(line, i))

\* The fields of line by the contract: the text between consecutive
\* field-ending delimiters.
ExpectedFields(line) ==
    LET ends == PositionsWhere(line, EndsField)
        text == PositionsWhere(line, InField)
        lo(k) == IF k = 1 THEN 0 ELSE ends[k - 1]
        hi(k) == IF k = Len(ends) + 1 THEN Len(line) + 1 ELSE ends[k]
        part(k) == SelectSeq(text, LAMBDA i : lo(k) < i /\ i < hi(k))
    IN  [k \in 1..(Len(ends) + 1) |-> [n \in DOMAIN part(k) |-> line[part(k)[n]]]]

\* C14: the fields the tokenizer returns are the texts between the
\* delimiters seen outside quotes, a doubled quote inside quotes standing for
\* one literal quote and leaving the scan inside quotes; the line a,"b""c"
\* gives exactly the two fields a and b"c.
C14_TokenizerQuoting ==
    call.op = "_parse_csv_line" =>
        /\ result.fields = ExpectedFields(call.text)
        /\ call.text = QuotedLine =>
                result.fields = <<<<"a">>, <<"b", "\"", "c">>>>

\* The round-trip line has been tokenized.
C14_Witness ==
    /\ call.op = "_parse_csv_line"
    /\ call.text = QuotedLine
    /\ Len(result.fields) = 2
    /\ Str(result.fields[2]) = "b\"c"

\* C15: for every line the tokenizer returns, and the number of fields is
\* one more than the number of delimiters seen outside quotes: one field for
\* a line without delimiter, one empty field for the empty line, an empty
\* last field after a trailing delimiter.
C15_TokenizerFieldCount ==
    call.op = "_parse_csv_line" =>
        LET line == call.text
        IN  /\ result.status = "ok"
            /\ Len(result.fields)
                    = 1 + Cardinality({i \in DOMAIN line : EndsField(line, i)})
            /\ (\A i \in DOMAIN line : line[i] # Delimiter) =>
                    Len(result.fields) = 1
            /\ line = <<>> => result.fields = <<<<>>>>
            /\ (line # <<>> /\ EndsField(line, Len(line))) =>
                    result.fields[Len(result.fields)] = <<>>

\* A line whose quote is never closed, with a delimiter before it and one
\* after it, has been tokenized to two fields.
C15_Witness ==
    /\ call.op = "_parse_csv_line"
    /\ call.text = <<"a", ",", "\"", ",", "a">>
    /\ result.fields = <<<<"a">>, <<",", "a">>>>

-----------------------------------------------------------------------------
(* Claims about value inference, checked under SpecValue.                  *)

\* An optional sign followed by decimal digits and nothing else.
IsSignedInteger(v) ==
    /\ Unsigned(v) # <<>>
    /\ \A i \in DOMAIN Unsigned(v) : IsDigit(Unsigned(v)[i])

\* An optional sign, decimal digits with an optional point (a digit on one
\* side of it at least), and an optional exponent of an optional sign and
\* decimal digits.
IsDecimalOrExponential(v) ==
    LET u == Unsigned(v)
        e == FirstIn(u, {"e", "E"})
        mant == IF e = 0 THEN u ELSE SubSeq(u, 1, e - 1)
        p == FirstIn(mant, {"."})
        digits == IF p = 0 THEN mant
                  ELSE SubSeq(mant, 1, p - 1) \o SubSeq(mant, p + 1, Len(mant))
    IN  /\ digits # <<>>
        /\ \A i \in DOMAIN digits : IsDigit(digits[i])
        /\ e # 0 => IsSignedInteger(SubSeq(u, e + 1, Len(u)))

\* The value the rules give for a field, first matching rule first.
ExpectedValue(text) ==
    LET v == Strip(text)
    IN  IF v = <<>> THEN Null
        ELSE IF IsSignedInteger(v) THEN IntV(IntLiteralVal(v))
        ELSE IF IsDecimalOrExponential(v) THEN FloatLiteralVal(v)
        ELSE IF Lower(v) = <<"t", "r", "u", "e">> THEN BoolV(TRUE)
        ELSE IF Lower(v) = <<"f", "a", "l", "s", "e">> THEN BoolV(FALSE)
        ELSE StrV(Str(v))

\* C18: with type inference a field becomes null when it is empty or
\* whitespace, else an integer when it is a signed base-10 integer, else a
\* float when it is a decimal or exponential number, else a boolean when it
\* is true or false in any case, else its trimmed text; without type
\* inference it becomes its trimmed text.
C18_ValueInference ==
    call.op = "_infer_value_type" =>
        result.scalar = IF call.type_inference THEN ExpectedValue(call.text)
                        ELSE StrV(Str(Strip(call.text)))

-----------------------------------------------------------------------------
(* Claims about apply_filters, checked under SpecFilters.                  *)

\* The filter has a column, a value and a known operator.
WellFormed(f) == f.column # "" /\ f.value # <<>> /\ f.op \in FilterOps

\* The row satisfies the filter: its value compares with the filter's value
\* as the operator says; an ordering is satisfied by no null and by no value
\* of another kind than the filter's.
Satisfies(row, f) ==
    LET x == RowGet(row, f.column)
        v == FilterValue(f.value)
    IN  IF f.op \in OrderingOps
        THEN /\ x.t # "null"
             /\ Comparable(x, v)
             /\ ConditionHolds(f.op, f.column, v, row)
        ELSE IF f.op = "==" THEN PyEq(x, v)
        ELSE ~PyEq(x, v)

\* The rows of the dataset that satisfy every well-formed filter of fs.
Conjunction(fs) ==
    SelectSeq(data, LAMBDA row :
        \A k \in DOMAIN fs : WellFormed(fs[k]) => Satisfies(row, fs[k]))

\* C23: apply_filters returns the rows that satisfy every well-formed
\* filter, in their order, whatever the order of the filters in the list; a
\* filter that is not well formed removes no row; an ordering filter selects
\* no row whose value is null.
C23_FiltersConjunction ==
    call.op = "apply_filters" =>
        /\ result.status = "ok"
        /\ result.rows = Conjunction(call.filters)
        /\ \A perm \in Permutations(DOMAIN call.filters) :
                ApplyFilters(data, Permuted(call.filters, perm)) = result
        /\ \A k \in DOMAIN call.filters :
                (WellFormed(call.filters[k]) /\ call.filters[k].op \in OrderingOps)
                => \A n \in DOMAIN result.rows :
                        RowGet(result.rows[n], call.filters[k].column).t # "null"

\* Whenever apply_filters returns, it returns the conjunction, and an
\* ordering filter selects no null; it raises exactly when an ordering filter
\* meets a value of another kind in a row the filters before it kept.
FiltersWhenReturned ==
    call.op = "apply_filters" =>
        /\ result.status = "ok" =>
            /\ result.rows = Conjunction(call.filters)
            /\ \A k \in DOMAIN call.filters :
                (WellFormed(call.filters[k]) /\ call.filters[k].op \in OrderingOps)
                => \A n \in DOMAIN result.rows :
                        RowGet(result.rows[n], call.filters[k].column).t # "null"
        /\ result.status = "raise" <=>
            \E k \in DOMAIN call.filters :
                /\ WellFormed(call.filters[k])
                /\ \E row \in Range(Conjunction(SubSeq(call.filters, 1, k - 1))) :
                    ConditionRaises(call.filters[k].op, call.filters[k].column,
                                    FilterValue(call.filters[k].value), row)

-----------------------------------------------------------------------------
(* Claims about execute_query, checked under SpecPipeline.                 *)

\* The rows of each step as the order join, filters, column selection,
\* aggregation gives them, each step on the rows of the step before.
JoinedRows == JoinStep(data, other_data, call.state)
FilteredRows ==
    IF call.state.filters = <<>> THEN JoinedRows
    ELSE ApplyFilters(JoinedRows, call.state.filters).rows
SelectedRows ==
    IF call.state.show_all_columns \/ call.state.selected_columns = <<>>
    THEN FilteredRows
    ELSE [i \in DOMAIN FilteredRows |->
             [c \in Range(call.state.selected_columns) |-> FilteredRows[i][c]]]
Aggregated ==
    ApplyAggregation(SelectedRows, call.state.aggregation_column,
                     call.state.aggregation_function,
                     call.state.aggregation_group_by)

\* The filters and the column selection of the state raise nothing.
StepsDefined ==
    /\ \/ call.state.filters = <<>>
       \/ ApplyFilters(JoinedRows, call.state.filters).status = "ok"
    /\ \/ call.state.show_all_columns
       \/ Range(call.state.selected_columns)
              \subseteq DOMAIN SchemaAfterInfer(JoinedRows, schema)

\* The sort step is due: a sort column is set and aggregation gave no info.
SortDue == call.state.sort_column # "" /\ Aggregated.info = ""

\* C22: execute_query returns the rows of join, then filters, then column
\* selection, then aggregation, and when a sort column is set and aggregation
\* gave no info, those rows ordered by the sort column.
C22_PipelineOrder ==
    (call.op = "execute_query" /\ StepsDefined) =>
        /\ result.status = "ok"
        /\ IF SortDue /\ Aggregated.rows # <<>>
                      /\ call.state.sort_column \in DOMAIN Aggregated.rows[1]
           THEN IsStableSort(result.rows, Aggregated.rows,
                             call.state.sort_column,
                             call.state.sort_order = "desc")
           ELSE SortDue \/ result.rows = Aggregated.rows

\* When the sort step is not due, execute_query returns the rows and the info
\* of the four steps in the order of C22; when it is due, execute_query
\* raises.
PipelineWithoutSort ==
    (call.op = "execute_query" /\ StepsDefined) =>
        IF SortDue THEN result.status = "raise" /\ result.exc = "AttributeError"
        ELSE /\ result.status = "ok"
             /\ result.rows = Aggregated.rows
             /\ result.info = Aggregated.info

-----------------------------------------------------------------------------
(* Claims about loading, checked under SpecLoad.                           *)

\* The parser holds every row of the file of name, and the schema inferred
\* over all of them.
FullyLoaded(parser, name) ==
    /\ parser.data = ServerRows(name)
    /\ parser.schema = InferSchemaAllRows(ServerRows(name))

\* C25: every parser in the cache, at every moment, holds all rows of its
\* file and the schema inferred over them, and so does the parser a request
\* has taken from the cache, whatever the loader threads are doing.
C25_CachedParsersComplete ==
    /\ \A name \in DOMAIN parsers : FullyLoaded(parsers[name], name)
    /\ \A s \in Sessions :
        requests[s].pc = "render" =>
            \E name \in Names : FullyLoaded(requests[s].p, name)

\* A request has taken the parser of a from the cache while a thread that
\* loads a again holds a parser with only the first chunk.
C25_Witness ==
    /\ requests[1].pc = "render"
    /\ requests[1].p.data = ServerRows("a")
    /\ \E t \in Loaders :
        /\ loaders[t].name = "a"
        /\ loaders[t].pc = "progress"
        /\ Len(loaders[t].parser.data) = ChunkRows
        /\ Len(loaders[t].parser.data) < Len(ServerRows("a"))

\* C26: whenever the progress of a dataset says complete, the dataset is a
\* key of parsers.
C26_CompleteMeansAvailable ==
    \A name \in DOMAIN loading_progress :
        loading_progress[name].status = "complete" => name \in DOMAIN parsers

\* The progress says complete for a dataset that is no key of parsers only
\* while a loader thread of it stands before its last assignment.
CompleteUnlessPublishing ==
    \A name \in DOMAIN loading_progress :
        loading_progress[name].status = "complete" =>
            \/ name \in DOMAIN parsers
            \/ \E t \in Loaders :
                    loaders[t].name = name /\ loaders[t].pc = "publish"

\* The batches a parser of name received: one in full mode, else the chunks
\* of its rows.
Batches(name) ==
    IF GetChunkSize(name) = 0 THEN 1
    ELSE (Len(ServerRows(name)) + GetChunkSize(name) - 1) \div GetChunkSize(name)

\* No load of name is in progress.
NoLoadOf(name) == \A t \in Loaders : loaders[t].name # name

\* The stats of name agree with its parser.
StatsExact(name) ==
    /\ heap[chunk_stats[name]].total_rows = Len(parsers[name].data)
    /\ heap[chunk_stats[name]].chunks_processed = Batches(name)

\* C27: once no load of a dataset is in progress, its stats hold the number
\* of rows of its parser and the number of batches the parser received.
C27_StatsMatchParser ==
    \A name \in (DOMAIN chunk_stats) \cap (DOMAIN parsers) :
        NoLoadOf(name) => StatsExact(name)

\* The stats are exact after a single load, and in full mode after any loads.
StatsExactWhenAlone ==
    \A name \in (DOMAIN chunk_stats) \cap (DOMAIN parsers) :
        (NoLoadOf(name) /\ (Runs(loaders) = 1 \/ GetChunkSize(name) = 0))
            => StatsExact(name)

-----------------------------------------------------------------------------
(* Claims about the sessions, checked under SpecSessions.                  *)

\* The dataset of the request of client s: the one its parameter names, else
\* the one of its session.
Own(s) ==
    IF requests[s].dataset # "" THEN requests[s].dataset
    ELSE sessions[s].active_dataset

\* The answer to the request of s comes from its own dataset: a page shows
\* the row count, rows and name of that dataset, the selection screen is
\* shown only when there is none, and no error is answered.
FromOwnDataset(s) ==
    /\ requests[s].response.status = "page" =>
        /\ Own(s) \in Names
        /\ requests[s].response.current_dataset = Own(s)
        /\ requests[s].response.row_count = Len(ServerRows(Own(s)))
        /\ Range(requests[s].response.rows) \subseteq Range(ServerRows(Own(s)))
    /\ requests[s].response.status = "select" => Own(s) = ""
    /\ requests[s].response.status # "error"

\* C28: every request to the index route is answered from the dataset of
\* its own parameter or session, whatever the requests of other sessions do.
C28_AnsweredFromOwnSession == \A s \in Sessions : FromOwnDataset(s)

\* A client whose requests meet no request of another client is answered
\* from its own dataset.
AnsweredFromOwnWhenAlone ==
    \A s \in Sessions :
        (\A u \in Sessions \ {s} : requests[u].runs = 0) => FromOwnDataset(s)

\* The step of the request of s that decides on the reset resets the query
\* state exactly when the dataset parameter differs from the session's
\* previous dataset or there was none; the steps before it leave the state.
ResetRule(s) ==
    /\ (requests[s].pc = "compare" /\ requests'[s].pc = "check") =>
        sessions'[s].query_state =
            IF requests[s].previous = "" \/ requests[s].previous # requests[s].dataset
            THEN DefaultState
            ELSE sessions[s].query_state
    /\ (requests[s].pc \in {"select", "store"} /\ requests'[s].pc # requests[s].pc) =>
        sessions'[s].query_state = sessions[s].query_state

\* C24: a request with a dataset parameter that differs from the session's
\* previous dataset, or with none before, resets the query state of the
\* session to the defaults before the query runs; a request that names the
\* same dataset or none leaves it.
C24_ResetOnDatasetChange == [][\A s \in Sessions : ResetRule(s)]_vars

\* The rule holds for a client whose requests meet no request of another.
ResetWhenAlone ==
    [][\A s \in Sessions :
          (\A u \in Sessions \ {s} : requests[u].runs = 0) => ResetRule(s)]_vars

=============================================================================
